---- MODULE Spec2Model ----
(***************************************************************************)
(* The thread-scoped handle registry of src/src/main.rs (macro link!,      *)
(* lines 183-329): the per-thread slot LIBRARY, the shared instances it    *)
(* refers to, and the operations load, load_manually, unload, get_library, *)
(* set_library and is_loaded.                                              *)
(*                                                                         *)
(* An instance is a SharedLibrary value: an opened image plus its function *)
(* table.  Instances are numbered in creation order; None (0) is the empty *)
(* Option.  A slot holds an Arc<SharedLibrary>; rc is the Arc's strong     *)
(* count, maintained the way Arc maintains it (clone adds one, drop takes  *)
(* one away and destroys the value when the count reaches zero).           *)
(*                                                                         *)
(* Code outside the registry (the callers) keeps what the operations       *)
(* return: owned SharedLibrary values returned by load_manually, and       *)
(* Arc references returned by get_library and set_library.  These are      *)
(* Send, so any thread may later pass them back in or drop them.           *)
(***************************************************************************)
EXTENDS Integers, FiniteSets, Sequences, TLC

\* Bounds of the model.
NumThreads == 2      \* threads of the process
MaxInst == 2         \* instances created in one behaviour
MaxHeld == 2         \* values and references kept by callers at one time

Threads == 1..NumThreads
MainThread == 1
Inst == 1..MaxInst
None == 0

\* The registry: entries of the link! invocation (main.rs 1735-2133), with the
\* cfg feature that gates each ("" for an entry without #[cfg]).
Registry == {"clang_createIndex", "clang_suspendTranslationUnit"}
Gate(e) == IF e = "clang_suspendTranslationUnit" THEN "gte_clang_5_0" ELSE ""

\* The features the crate is built with: none by default; Builds are the
\* build configurations considered.
BuildFeatures == {}
Builds == {{}, {"gte_clang_5_0"}}

\* The paths build::find_shared_library can return, and the path of no file.
NoFile == "<none>"
Files == {"/usr/lib/libclang.so.5.0", "/opt/llvm/lib/libclang.so"}

\* The character between which the messages of the code quote a word.
Backquote == SubSeq("`'", 1, 1)

\* The message of the panic of Option::unwrap on None.
UnwrapNoneMsg ==
  "called " \o Backquote \o "Option::unwrap()" \o Backquote \o " on a " \o Backquote \o "None"
    \o Backquote \o " value"

\* What libloading::Library::new and Library::get see in each file.
Openable(f) == f # "/opt/llvm/lib/libclang.so"
Exports(f) ==
  IF f = "/usr/lib/libclang.so.5.0" THEN {"clang_createIndex", "clang_suspendTranslationUnit"}
  ELSE IF f = "/usr/lib/libclang.so.3.9" THEN {"clang_createIndex"}
  ELSE {}

VARIABLES
  features,   \* the cfg features of the build; fixed for a run of the program
  status,     \* status[t]: "running" or "exited"
  slot,       \* slot[t]: LIBRARY of thread t, None or an instance
  rc,         \* rc[x]: strong count of the Arc around instance x
  img,        \* img[x]: "none" (not created), "open" or "closed"
  closes,     \* closes[x]: how often the image of x was unloaded
  file,       \* file[x]: the path instance x was opened from
  functions,  \* functions[x][e]: field e of x's Functions: "Some", "None",
              \* or "nofield" when the field is compiled out by its cfg
  nextId,     \* the next instance to be created
  owned,      \* SharedLibrary values owned by callers (not in an Arc)
  held,       \* held[x]: Arc references to x kept by callers
  latest,     \* latest[t]: what the latest call of t that wrote its slot did:
              \* "load" (a successful load) or "set" (set_library(Some(x)))
              \* with the instance installed, "clear" (unload,
              \* set_library(None)), "none" before any
  last,       \* the latest step: the call made and what it returned
  libclang_path,  \* the value of LIBCLANG_PATH, or Unset
  llvm_config,    \* what running llvm-config does (--prefix, --bindir)
  fsys,           \* the files that exist: path |-> the first bytes of the file
  located,        \* the latest call of the locator and what it returned
  target,         \* the platform the crate is built for: target_os, target_pointer_width
  clang_path,     \* the value of CLANG_PATH, or Unset
  path_var,       \* the value of PATH, or Unset
  bins            \* the files of the directories of executables: path |-> kind

vars == <<features, status, slot, rc, img, closes, file, functions, nextId, owned, held,
          latest, last, libclang_path, llvm_config, fsys, located, target,
          clang_path, path_var, bins>>

\* A call of the registry: who called what with which argument, what it
\* returned (val: an instance or None; res: the kind of result; msg: the
\* message of an Err of load and load_manually), whether it ran the discovery
\* pipeline (build::find_shared_library) and what that found.  load returns
\* no instance: its val is the occupant it replaced.
Call(op, t, arg, val, res, disc) ==
  [op |-> op, t |-> t, arg |-> arg, val |-> val, res |-> res, disc |-> disc,
   found |-> NoFile, msg |-> ""]
\* A step of the code around the registry.
Other == Call("other", 0, None, None, "", FALSE)
Wrote(op, arg) == [op |-> op, arg |-> arg]

\* #[cfg($cfg)] of an entry: its field of Functions, its wrapper, its
\* is_loaded module and its loader exist only when the cfg holds.
CfgHolds(e) == Gate(e) = "" \/ Gate(e) \in features

\* Functions::default() (SharedLibrary::new): every field there is is None.
DefaultFunctions == [e \in Registry |-> IF CfgHolds(e) THEN "None" ELSE "nofield"]

\* Variant: every entry is looked up, whatever its cfg.
Bind_ignoring_cfg(f) == [e \in Registry |-> IF e \in Exports(f) THEN "Some" ELSE "None"]

\* Variant: the lookups are skipped when the file is already open in the
\* process, as if its symbols had been bound for good the first time.
Bind_skipping_open(f) ==
  [e \in Registry |->
     IF ~CfgHolds(e) THEN "nofield"
     ELSE IF e \in Exports(f) /\ \A x \in Inst : ~(img[x] = "open" /\ file[x] = f)
       THEN "Some" ELSE "None"]

\* link!(@LOAD ...), run for every entry by load_manually: an entry whose cfg
\* holds is looked up by its exact name and its field becomes Some when the
\* image exports it and None otherwise; an entry whose cfg does not hold has
\* the empty loader: it is not looked up.
Bind(f) ==
  [e \in Registry |->
     IF ~CfgHolds(e) THEN "nofield"
     ELSE IF e \in Exports(f) THEN "Some" ELSE "None"]

\* ---------------------------------------------------------------------------
\* The locator: mod build.  Paths are strings, handled character by character.

\* The i-th character of s.
Ch(s, i) == SubSeq(s, i, i)

\* The characters of the paths, in byte order.
Alphabet == "*+-./0123456789ABCDEFGHIJKLMNOPQRSTUVWXYZ_abcdefghijklmnopqrstuvwxyz"
Chars == {Ch(Alphabet, i) : i \in 1..Len(Alphabet)}
OrdOf == [c \in Chars |-> CHOOSE i \in 1..Len(Alphabet) : Ch(Alphabet, i) = c]
Ord(c) == OrdOf[c]
Digits == {"0", "1", "2", "3", "4", "5", "6", "7", "8", "9"}
DigitVal(c) == Ord(c) - Ord("0")

\* str::cmp: byte-wise lexicographic order, a proper prefix being smaller.
RECURSIVE StrLessFrom(_, _, _)
StrLessFrom(a, b, i) ==
  IF i > Len(a) THEN i <= Len(b)
  ELSE IF i > Len(b) THEN FALSE
  ELSE IF Ch(a, i) = Ch(b, i) THEN StrLessFrom(a, b, i + 1)
  ELSE Ord(Ch(a, i)) < Ord(Ch(b, i))
StrLess(a, b) == StrLessFrom(a, b, 1)

\* str::split(sep): the pieces between the occurrences of sep.
RECURSIVE SplitFrom(_, _, _, _)
SplitFrom(s, sep, i, start) ==
  IF i > Len(s) THEN <<SubSeq(s, start, Len(s))>>
  ELSE IF Ch(s, i) = sep
    THEN <<SubSeq(s, start, i - 1)>> \o SplitFrom(s, sep, i + 1, i + 1)
    ELSE SplitFrom(s, sep, i + 1, start)
Split(s, sep) == SplitFrom(s, sep, 1, 1)

\* Iterator::skip(n).
Skip(q, n) == SubSeq(q, n + 1, Len(q))

\* The largest u32, in decimal.
U32MaxDec == "4294967295"

RECURSIVE StripZeros(_)
StripZeros(s) == IF Len(s) > 1 /\ Head(s) = "0" THEN StripZeros(Tail(s)) ELSE s

RECURSIVE DecVal(_, _)
DecVal(s, acc) == IF s = "" THEN acc ELSE DecVal(Tail(s), 10 * acc + DigitVal(Head(s)))

\* str::parse::<u32>().unwrap_or(0): an optional + sign, then at least one
\* digit and only digits, of value at most u32::MAX; anything else is 0.
ParseU32OrZero(s) ==
  LET d == IF s # "" /\ Head(s) = "+" THEN Tail(s) ELSE s
      z == StripZeros(d)
  IN IF d = "" \/ \E i \in 1..Len(d) : Ch(d, i) \notin Digits THEN 0
     ELSE IF Len(z) > Len(U32MaxDec) THEN 0
     ELSE IF Len(z) = Len(U32MaxDec) /\ StrLess(U32MaxDec, z) THEN 0
     ELSE DecVal(z, 0)

\* The version appended to the file name of a path, which is what the
\* documentation of parse_version says it returns: the pieces of the file
\* name behind its first two (name and extension).
VersionOfName(path) ==
  LET parts == Split(path, "/")
      string == parts[Len(parts)]
      components == Skip(Split(string, "."), 2)
  IN [i \in 1..Len(components) |-> ParseU32OrZero(components[i])]

\* parse_version(file), file being path here: the whole path string is split at every dot, the
\* first two pieces are skipped, and each remaining piece is parsed as u32,
\* 0 standing for a piece that does not parse.
parse_version(path) ==
  LET string == path
      components == Skip(Split(string, "."), 2)
  IN [i \in 1..Len(components) |-> ParseU32OrZero(components[i])]

\* Ord for Vec<u32>: lexicographic, a proper prefix being smaller.
RECURSIVE VecLessFrom(_, _, _)
VecLessFrom(a, b, i) ==
  IF i > Len(a) THEN i <= Len(b)
  ELSE IF i > Len(b) THEN FALSE
  ELSE IF a[i] = b[i] THEN VecLessFrom(a, b, i + 1)
  ELSE a[i] < b[i]
VecLess(a, b) == VecLessFrom(a, b, 1)

\* The platform the crate is built for.
TargetOs == "linux"
TargetPointerWidth == 64

\* The directories that exist, and the prefix llvm-config can report.
Dirs ==
  {"/opt/clang", "/opt/llvm/lib", "/usr/Lib", "/usr/lib", "/usr/lib/llvm-3.9",
   "/usr/lib/llvm-3.9/lib", "/usr/local/lib"}
Prefix == "/opt/llvm"

\* The first five bytes of a 64-bit ELF image, and of a file that is none.
Elf64 == <<127, 69, 76, 70, 2>>
NotElf == <<35, 33, 47, 98, 105>>
Headers == {Elf64, NotElf}

\* The platforms and the kinds of library Library::check is compiled and
\* called for, and the files it is handed: none, or one with these bytes.
Platforms == {"freebsd", "linux", "macos", "windows"}
Widths == {32, 64}
Libraries == {"Dynamic", "Static"}
Elf32 == <<127, 69, 76, 70, 1>>
CheckPath == "/usr/lib/libclang.so"
CheckHeaders ==
  {Elf64, Elf32, NotElf, <<>>, <<127, 69, 76, 70>>, <<127, 69, 76, 70, 3>>,
   <<127, 69, 76, 70, 2, 1, 1>>}
CheckFiles == {<<>>} \cup {[p \in {CheckPath} |-> h] : h \in CheckHeaders}

\* The files an installation can hold.
FilePaths ==
  {"/opt/clang/libclang.so", "/opt/clang/libclang.so.3.9",
   "/opt/llvm/lib/libclang.so.5.0", "/usr/Lib/libclang.so",
   "/usr/lib/libclang.so.3.9", "/usr/lib/libclang.so.3.10", "/usr/lib/libclang.so.3.09",
   "/usr/lib/llvm-3.9/lib/libclang.so", "/usr/lib/llvm-3.9/lib/libclang.so.1",
   "/usr/local/lib/libclang.so"}

\* At most MaxFiles files exist at a time.
MaxFiles == 2
FileSystems ==
  UNION {[P -> Headers] : P \in {Q \in SUBSET FilePaths : Cardinality(Q) <= MaxFiles}}

\* Path::join.
Join(d, n) ==
  IF d = "" THEN n
  ELSE IF Ch(d, Len(d)) = "/" THEN d \o n
  ELSE d \o "/" \o n

\* The file names find_shared_library looks for on Linux.
SharedLibraryFiles == <<"libclang.so", "libclang.so.*">>

\* The backup directory globs for FreeBSD and Linux.
SEARCH_LINUX ==
  <<"/usr/lib*", "/usr/lib*/*", "/usr/lib*/*/*", "/usr/local/lib*",
    "/usr/local/lib*/*", "/usr/local/lib*/*/*", "/usr/local/llvm*/lib">>

\* LIBCLANG_PATH when it is not set.
Unset == "<unset>"

\* The values of LIBCLANG_PATH.
EnvValues == {Unset, "/opt/clang", "/usr/lib"}

\* The directories contains is applied to.
ContainsInputs == Dirs \cup {Join(Prefix, "bin")}

\* The components of a path.  Those of the paths and patterns of this model
\* are split once.
Known ==
  FilePaths \cup ContainsInputs
    \cup {Join(d, SharedLibraryFiles[i]) : d \in ContainsInputs, i \in 1..Len(SharedLibraryFiles)}
    \cup {SEARCH_LINUX[i] : i \in 1..Len(SEARCH_LINUX)}
ComponentsOf == [path \in Known |-> Split(path, "/")]
Components(path) == IF path \in Known THEN ComponentsOf[path] ELSE Split(path, "/")

\* ASCII lower case, for MatchOptions with case_sensitive = false.
LowerOf ==
  [c \in Chars |->
     IF Ord(c) \in Ord("A")..Ord("Z") THEN Ch(Alphabet, Ord(c) - Ord("A") + Ord("a")) ELSE c]
Lower(c) == LowerOf[c]

\* The place of the ] that closes the class opened at pat[i], 0 when there
\* is none: a ] right after the [ stands for itself.
ClassEnd(pat, i) ==
  LET at == {k \in (i + 2)..Len(pat) : Ch(pat, k) = "]"}
  IN IF at = {} THEN 0 ELSE CHOOSE k \in at : \A m \in at : k <= m

\* Whether character c is one of pat[k..hi], the inside of a class: a-b is
\* the range from a to b, any other character stands for itself.
RECURSIVE InClass(_, _, _, _)
InClass(pat, k, hi, c) ==
  IF k > hi THEN FALSE
  ELSE IF k + 2 <= hi /\ Ch(pat, k + 1) = "-"
    THEN \/ Ord(Ch(pat, k)) <= Ord(c) /\ Ord(c) <= Ord(Ch(pat, k + 2))
         \/ InClass(pat, k + 3, hi, c)
  ELSE Ch(pat, k) = c \/ InClass(pat, k + 1, hi, c)

\* Whether c matches the class pat[i..e]: [!...] matches what [...] does not.
ClassMatches(pat, i, e, c) ==
  IF Ch(pat, i + 1) = "!" THEN ~InClass(pat, i + 2, e - 1, c) ELSE InClass(pat, i + 1, e - 1, c)

\* Pattern::matches_with on one path component: * matches any run of
\* characters, ? any one character, [...] one character of the class, any
\* other character itself.
RECURSIVE WildMatch(_, _, _, _, _)
WildMatch(pat, i, str, j, case_sensitive) ==
  IF i > Len(pat) THEN j > Len(str)
  ELSE IF Ch(pat, i) = "*"
    THEN \/ WildMatch(pat, i + 1, str, j, case_sensitive)
         \/ j <= Len(str) /\ WildMatch(pat, i, str, j + 1, case_sensitive)
  ELSE IF Ch(pat, i) = "[" /\ ClassEnd(pat, i) > 0
    THEN /\ j <= Len(str)
         /\ ClassMatches(pat, i, ClassEnd(pat, i), Ch(str, j))
         /\ WildMatch(pat, ClassEnd(pat, i) + 1, str, j + 1, case_sensitive)
  ELSE /\ j <= Len(str)
       /\ \/ Ch(pat, i) = "?"
          \/ Ch(pat, i) = Ch(str, j)
          \/ ~case_sensitive /\ Lower(Ch(pat, i)) = Lower(Ch(str, j))
       /\ WildMatch(pat, i + 1, str, j + 1, case_sensitive)

HasMeta(pat) == \E i \in 1..Len(pat) : Ch(pat, i) \in {"*", "?", "["}

\* glob walks the tree one component at a time (require_literal_separator):
\* a component without wildcards names its entry exactly, a component with
\* wildcards is matched against the entries of the directory.
PathMatches(pattern, path, case_sensitive) ==
  LET pc == Components(pattern)
      sc == Components(path)
  IN /\ Len(pc) = Len(sc)
     /\ \A i \in 1..Len(pc) :
          IF HasMeta(pc[i]) THEN WildMatch(pc[i], 1, sc[i], 1, case_sensitive)
          ELSE pc[i] = sc[i]

\* The order in which glob yields paths: entries sorted by name, directory
\* by directory.
RECURSIVE CompsLessFrom(_, _, _)
CompsLessFrom(a, b, i) ==
  IF i > Len(a) THEN i <= Len(b)
  ELSE IF i > Len(b) THEN FALSE
  ELSE IF a[i] = b[i] THEN CompsLessFrom(a, b, i + 1)
  ELSE StrLess(a[i], b[i])
PathLess(a, b) == CompsLessFrom(Components(a), Components(b), 1)

RECURSIVE InGlobOrder(_)
InGlobOrder(S) ==
  IF S = {} THEN <<>>
  ELSE LET m == CHOOSE x \in S : \A y \in S \ {x} : PathLess(x, y)
       IN <<m>> \o InGlobOrder(S \ {m})

\* glob::glob_with(pattern, options) over the file system fs: the existing
\* paths that match, in glob's order.
glob_with(pattern, case_sensitive, fs) ==
  InGlobOrder({p \in DOMAIN fs \cup Dirs : PathMatches(pattern, p, case_sensitive)})

\* One step of a stable sort by parse_version: x goes behind every element
\* whose version is not greater than its own.
RECURSIVE InsertByKey(_, _)
InsertByKey(sorted, x) ==
  IF sorted # <<>> /\ VecLess(parse_version(x), parse_version(sorted[Len(sorted)]))
    THEN InsertByKey(SubSeq(sorted, 1, Len(sorted) - 1), x) \o <<sorted[Len(sorted)]>>
    ELSE sorted \o <<x>>

\* slice::sort_by_key(|m| parse_version(m)): stable, ascending.
RECURSIVE SortFirst(_, _)
SortFirst(q, n) ==
  IF n = 0 THEN <<>> ELSE InsertByKey(SortFirst(q, n - 1), q[n])
SortByKey(q) == SortFirst(q, Len(q))

\* Vec::pop: the last element, None (the empty sequence) for an empty Vec.
Pop(q) == IF q = <<>> THEN <<>> ELSE <<q[Len(q)]>>

\* The matches of the patterns files[i], files[i+1], ... in directory, in the
\* order contains collects them: pattern by pattern, each pattern's matches
\* in glob's order.
RECURSIVE MatchesFrom(_, _, _, _)
MatchesFrom(directory, files, i, fs) ==
  IF i > Len(files) THEN <<>>
  ELSE glob_with(Join(directory, files[i]), TRUE, fs) \o MatchesFrom(directory, files, i + 1, fs)
Matches(directory, files, fs) == MatchesFrom(directory, files, 1, fs)

\* Variant: the first of the matching files is taken, unsorted.
contains_first(directory, files, fs) ==
  LET matches == Matches(directory, files, fs)
  IN IF matches = <<>> THEN <<>> ELSE <<matches[1]>>

\* Variant: the sort is by name, the last name wins.
contains_by_name(directory, files, fs) ==
  LET matches == Matches(directory, files, fs)
  IN Pop(InGlobOrder({matches[i] : i \in 1..Len(matches)}))

\* contains(directory, files): the matches are sorted by parse_version and
\* the last one is popped; None (the empty sequence) when nothing matches.
contains(directory, files, fs) == Pop(SortByKey(Matches(directory, files, fs)))

\* Library::check with the class of the image left unexamined.
Library_check_any_class(os, width, library, path, fs) ==
  IF os \notin {"freebsd", "linux"} \/ library = "Static" THEN "Ok"
  ELSE IF path \notin DOMAIN fs THEN "No such file or directory (os error 2)"
  ELSE IF Len(fs[path]) < 5 THEN "failed to fill whole buffer"
  ELSE IF SubSeq(fs[path], 1, 4) # <<127, 69, 76, 70>> THEN "invalid ELF header"
  ELSE "Ok"

\* Library::check compiled for a platform: Ok, or the reason of the
\* rejection.  File::open fails on a file that does not exist and read_exact
\* on one shorter than five bytes.
Library_check(os, width, library, path, fs) ==
  IF os \notin {"freebsd", "linux"} THEN "Ok"
  ELSE IF library = "Static" THEN "Ok"
  ELSE IF path \notin DOMAIN fs THEN "No such file or directory (os error 2)"
  ELSE IF Len(fs[path]) < 5 THEN "failed to fill whole buffer"
  ELSE IF SubSeq(fs[path], 1, 4) # <<127, 69, 76, 70>> THEN "invalid ELF header"
  ELSE IF width = 32 /\ fs[path][5] # 1 THEN "invalid ELF class (64-bit)"
  ELSE IF width = 64 /\ fs[path][5] # 2 THEN "invalid ELF class (32-bit)"
  ELSE "Ok"

\* Library::check as find_shared_library's build has it.
check(path, fs) == Library_check(TargetOs, TargetPointerWidth, "Dynamic", path, fs)

\* The directories the backup loop searches from pattern search[i] on, in
\* order: for every pattern the paths glob yields under the options that
\* are directories.
RECURSIVE BackupDirsFrom(_, _, _, _)
BackupDirsFrom(search, i, case_sensitive, fs) ==
  IF i > Len(search) THEN <<>>
  ELSE SelectSeq(glob_with(search[i], case_sensitive, fs), LAMBDA p : p \in Dirs)
         \o BackupDirsFrom(search, i + 1, case_sensitive, fs)

\* Variant: the patterns are matched with regard to letter case.
BackupDirs_case_sensitive(fs) == BackupDirsFrom(SEARCH_LINUX, 1, TRUE, fs)

\* The backup directories of Linux: options.case_sensitive = false.
BackupDirs(fs) == BackupDirsFrom(SEARCH_LINUX, 1, FALSE, fs)

\* The state of one run of find: what was returned (if anything), the
\* candidates rejected so far, the directories searched so far.
FindStart == [ret |-> <<>>, skipped |-> <<>>, searched |-> <<>>]

\* try_file!(file): find returns the file when check accepts it, and pushes
\* it to skipped with the reason otherwise.
Checked(st, path, message) ==
  IF message = "Ok" THEN [st EXCEPT !.ret = <<path>>]
  ELSE [st EXCEPT !.skipped = @ \o <<<<path, message>>>>]
try_file(st, path, fs) == Checked(st, path, check(path, fs))

\* search_directory!(directory) on a platform other than Windows: the
\* directory's candidate, if contains finds one, goes to try_file!.  Nothing
\* happens once find has returned.
Searched(st, directory, candidate, fs) ==
  IF candidate = <<>> THEN [st EXCEPT !.searched = @ \o <<directory>>]
  ELSE try_file([st EXCEPT !.searched = @ \o <<directory>>], candidate[1], fs)
\* Variant: the matches of the directory are tried from the best one down
\* until check accepts one.
search_directory_all(st, directory, files, fs) ==
  LET sorted == SortByKey(Matches(directory, files, fs))
      RECURSIVE TryEach(_, _)
      TryEach(s, i) ==
        IF i = 0 \/ s.ret # <<>> THEN s ELSE TryEach(try_file(s, sorted[i], fs), i - 1)
  IN IF st.ret # <<>> THEN st
     ELSE TryEach([st EXCEPT !.searched = @ \o <<directory>>], Len(sorted))

\* Variant: nothing happens either once a candidate has been rejected.
search_directory_once(st, directory, files, fs) ==
  IF st.ret # <<>> \/ st.skipped # <<>> THEN st
  ELSE Searched(st, directory, contains(directory, files, fs), fs)

search_directory(st, directory, files, fs) ==
  IF st.ret # <<>> THEN st
  ELSE Searched(st, directory, contains(directory, files, fs), fs)

RECURSIVE SearchAll(_, _, _, _, _)
SearchAll(st, dirs, i, files, fs) ==
  IF i > Len(dirs) THEN st
  ELSE SearchAll(search_directory(st, dirs[i], files, fs), dirs, i + 1, files, fs)

\* The outcome of a run of find: what it returned (the path of Ok, the
\* message of Err), with the candidates it rejected, the directories it
\* searched and whether it ran llvm-config.
Outcome(st, res, ran) ==
  [res |-> res,
   path |-> IF res = "Ok" THEN st.ret[1] ELSE "",
   message |-> "",
   skipped |-> st.skipped,
   searched |-> st.searched,
   ran |-> ran]

\* files.iter().map(|f| format!("'{}'", f)).collect::<Vec<_>>().join(", ").
RECURSIVE QuotedFrom(_, _)
QuotedFrom(files, i) ==
  IF i > Len(files) THEN ""
  ELSE (IF i > 1 THEN ", " ELSE "") \o "'" \o files[i] \o "'" \o QuotedFrom(files, i + 1)

\* format!("({}: {})", file.display(), message) of try_file!.
Entry(e) == "(" \o e[1] \o ": " \o e[2] \o ")"

\* skipped.join(", ").
RECURSIVE JoinedFrom(_, _)
JoinedFrom(skipped, i) ==
  IF i > Len(skipped) THEN ""
  ELSE (IF i > 1 THEN ", " ELSE "") \o Entry(skipped[i]) \o JoinedFrom(skipped, i + 1)

\* Variant: the message names no variable and lists the last rejection only.
ErrMessage_terse(files, name, skipped) ==
  "couldn't find any of [" \o QuotedFrom(files, 1) \o "] (skipped: ["
    \o (IF skipped = <<>> THEN "" ELSE Entry(skipped[Len(skipped)])) \o "])"

\* The message of find's Err.
ErrMessage(files, name, skipped) ==
  "couldn't find any of [" \o QuotedFrom(files, 1) \o "], set the " \o name
    \o " environment variable to a path where one of these files can be found (skipped: ["
    \o JoinedFrom(skipped, 1) \o "])"

\* find ends in Err(message).
Failed(st, files, env) ==
  [Outcome(st, "Err", TRUE) EXCEPT !.message = ErrMessage(files, env.name, st.skipped)]

\* The outcome of llvm-config --prefix: whether the command could be run
\* (ok), whether it exited with status 0 (success), and the lines of what it
\* wrote to its standard output.
NoHelper == [ok |-> FALSE, success |-> FALSE, lines |-> <<>>]
Garbage == "usage"
HelperRuns ==
  {NoHelper, [ok |-> TRUE, success |-> TRUE, lines |-> <<Garbage>>]}
    \cup [ok : {TRUE}, success : BOOLEAN, lines : {<<>>, <<Prefix>>}]

\* The search of the directory of the environment variable, if it is set.
Override(files, env, fs) ==
  IF env.value # Unset THEN search_directory(FindStart, env.value, files, fs) ELSE FindStart

\* bin and lib under the first line llvm-config printed, if it could be run.
HelperDirs(hlp) ==
  IF hlp.ok THEN <<Join(hlp.lines[1], "bin"), Join(hlp.lines[1], "lib")>> ELSE <<>>

\* output.lines().next().unwrap() panics when llvm-config printed nothing.
Panics(hlp) == hlp.ok /\ hlp.lines = <<>>

\* find ends in that panic: nothing is returned.
Panicked(st) == [Outcome(st, "panic", TRUE) EXCEPT !.message = UnwrapNoneMsg]

\* What find returns at its end.
Finish(st, files, env) ==
  IF st.ret # <<>> THEN Outcome(st, "Ok", TRUE) ELSE Failed(st, files, env)

\* Variant: the backup directories are searched before llvm-config is asked.
find_backups_first(files, env, hlp, fs) ==
  LET st == SearchAll(Override(files, env, fs), BackupDirs(fs), 1, files, fs)
  IN IF st.ret # <<>> THEN Outcome(st, "Ok", FALSE)
     ELSE IF Panics(hlp) THEN Panicked(st)
     ELSE Finish(SearchAll(st, HelperDirs(hlp), 1, files, fs), files, env)

\* Variant: with the variable set, the search ends with its directory.
find_override_only(files, env, hlp, fs) ==
  LET st == Override(files, env, fs)
  IN IF st.ret # <<>> THEN Outcome(st, "Ok", FALSE)
     ELSE IF env.value # Unset THEN Outcome(st, "Err", FALSE)
     ELSE IF Panics(hlp) THEN Panicked(st)
     ELSE Finish(SearchAll(st, HelperDirs(hlp) \o BackupDirs(fs), 1, files, fs), files, env)

\* find after the directory of the environment variable: it has returned if
\* that directory's candidate was accepted; otherwise llvm-config is run,
\* bin and lib under its prefix are searched, then the backup directories.
AfterOverride(st, files, env, hlp, fs) ==
  IF st.ret # <<>> THEN Outcome(st, "Ok", FALSE)
  ELSE IF Panics(hlp) THEN Panicked(st)
  ELSE Finish(SearchAll(st, HelperDirs(hlp) \o BackupDirs(fs), 1, files, fs), files, env)

\* find(Library::Dynamic, files, env): the directory of the environment
\* variable if it is set; then, if llvm-config could be run, bin and lib under
\* the first line it printed (unwrap panics when it printed nothing); then
\* the backup directories; the first accepted candidate is returned, and
\* Err when there is none.  env is the variable's name and value, hlp what
\* llvm-config did, fs the file system.
find(files, env, hlp, fs) == AfterOverride(Override(files, env, fs), files, env, hlp, fs)

\* The strings parse_version is applied to: the paths of the files that
\* exist, and some file names.
ParseInputs(fs) ==
  DOMAIN fs \cup {"libclang.so.3.9", "libclang.so.3.x.1", "libclang.so.4294967296"}

\* A call of the locator and what it returned: found for find, best for
\* contains, version for parse_version.
NoOutcome ==
  [res |-> "", path |-> "", message |-> "", skipped |-> <<>>, searched |-> <<>>, ran |-> FALSE]
Located(op, arg, found, best, version) ==
  [op |-> op, arg |-> arg, found |-> found, best |-> best, version |-> version]
NoCall == Located("none", "", NoOutcome, <<>>, <<>>)

InitRegistry ==
  /\ status = [t \in Threads |-> "running"]
  /\ slot = [t \in Threads |-> None]
  /\ rc = [x \in Inst |-> 0]
  /\ img = [x \in Inst |-> "none"]
  /\ closes = [x \in Inst |-> 0]
  /\ file = [x \in Inst |-> NoFile]
  /\ functions = [x \in Inst |-> DefaultFunctions]
  /\ nextId = 1
  /\ owned = {}
  /\ held = [x \in Inst |-> 0]
  /\ latest = [t \in Threads |-> Wrote("none", None)]
  /\ last = Other

\* ---------------------------------------------------------------------------
\* The locator of the clang executable: mod support.

\* env::consts::EXE_SUFFIX on Linux, and the patterns Clang::find looks for.
EXE_SUFFIX == ""
ClangPatterns == <<"clang" \o EXE_SUFFIX, "clang-[0-9]*" \o EXE_SUFFIX>>

\* The files the directories of executables can hold, and what each can be:
\* a program, a file without the permission to execute, a file with that
\* permission that the system cannot run.
BinPaths ==
  {"/opt/clang/bin/clang", "/opt/llvm/bin/clang", "/usr/bin/clang", "/usr/bin/clang-3.9",
   "/usr/bin/clang-4.0", "/usr/bin/clang-format", "/usr/local/bin/clang-3.9"}
Kinds == {"program", "data", "broken"}
BinSystems ==
  UNION {[P -> Kinds] : P \in {Q \in SUBSET BinPaths : Cardinality(Q) <= MaxFiles}}

\* The values of CLANG_PATH and of PATH, the path argument of Clang::find,
\* and what llvm-config --bindir does.
ClangPathValues == {Unset, "/opt/clang/bin/clang", "/usr/bin/clang-3.9"}
PathValues == {Unset, "/usr/bin", "/usr/local/bin:/usr/bin"}
NoHint == "<none>"
Hints == {NoHint, "/opt/clang/bin"}
BindirRuns ==
  {NoHelper, [ok |-> TRUE, success |-> TRUE, lines |-> <<"/opt/llvm/bin">>],
   [ok |-> TRUE, success |-> FALSE, lines |-> <<>>]}

\* Path::is_file, access(path, X_OK) == 0, and whether Command::output can
\* run the file.
is_file(path, fs) == path \in DOMAIN fs
is_executable(path, fs) == path \in DOMAIN fs /\ fs[path] \in {"program", "broken"}
Runs(path, fs) == path \in DOMAIN fs /\ fs[path] = "program"

\* What a process wrote to its standard output: every line with its newline.
RECURSIVE StdoutFrom(_, _)
StdoutFrom(lines, i) ==
  IF i > Len(lines) THEN "" ELSE lines[i] \o "\n" \o StdoutFrom(lines, i + 1)

\* env::split_paths on Unix.
split_paths(value) == Split(value, ":")

\* Iterator::next: the first element, None (the empty sequence) when there
\* is none.
Next1(q) == IF q = <<>> THEN <<>> ELSE <<q[1]>>

\* support::find(directory, patterns) from patterns[i] on: for each pattern
\* the first path glob yields is looked at, and returned if it is a file
\* that may be executed.
RECURSIVE support_find_from(_, _, _, _)
support_find_from(directory, patterns, i, fs) ==
  IF i > Len(patterns) THEN <<>>
  ELSE LET first == Next1(glob_with(Join(directory, patterns[i]), TRUE, fs))
       IN IF first # <<>> /\ is_file(first[1], fs) /\ is_executable(first[1], fs) THEN first
          ELSE support_find_from(directory, patterns, i + 1, fs)
support_find(directory, patterns, fs) == support_find_from(directory, patterns, 1, fs)

\* The outcome of a run of Clang::find: Some(Clang) with its path, None, or
\* a panic; the directories searched; whether llvm-config was run.
ClangOutcome(res, path, searched, ran) ==
  [NoOutcome EXCEPT !.res = res, !.path = path, !.searched = searched, !.ran = ran]

\* Clang::new(path, args): run_clang unwraps the result of running the file,
\* for its version and for its search paths.
Clang_new(path, searched, ran, fs) ==
  IF Runs(path, fs) THEN ClangOutcome("Some", path, searched, ran)
  ELSE ClangOutcome("panic", "", searched, ran)

\* The directories Clang::find searches on Linux, in order: the path
\* argument, what llvm-config --bindir printed, the entries of PATH.
ClangPaths(hint, hlp, value) ==
  (IF hint # NoHint THEN <<hint>> ELSE <<>>)
    \o (IF hlp.ok THEN <<StdoutFrom(hlp.lines, 1)>> ELSE <<>>)
    \o split_paths(value)

\* for path in paths: the first directory where support::find finds a file
\* makes the Clang.
RECURSIVE SearchBins(_, _, _)
SearchBins(paths, i, fs) ==
  IF i > Len(paths) THEN ClangOutcome("None", "", paths, TRUE)
  ELSE IF support_find(paths[i], ClangPatterns, fs) # <<>>
    THEN Clang_new(support_find(paths[i], ClangPatterns, fs)[1], SubSeq(paths, 1, i), TRUE, fs)
  ELSE SearchBins(paths, i + 1, fs)

\* Clang::find(path, args): CLANG_PATH if it is set; otherwise the search,
\* for which env::var("PATH") is unwrapped.
Clang_find(hint, value, hlp, paths, fs) ==
  IF value # Unset THEN Clang_new(value, <<>>, FALSE, fs)
  ELSE IF paths = Unset THEN ClangOutcome("panic", "", <<>>, TRUE)
  ELSE SearchBins(ClangPaths(hint, hlp, paths), 1, fs)

\* The environment of Clang::find when it is not studied.
InitClang ==
  /\ clang_path = Unset
  /\ path_var = Unset
  /\ bins = <<>>

\* The environment of the locator when the registry is studied by itself:
\* the outcome of find_shared_library is then an input of load_manually.
InitLocator ==
  /\ libclang_path = Unset
  /\ llvm_config = NoHelper
  /\ fsys = <<>>
  /\ located = NoCall
  /\ target = [os |-> TargetOs, width |-> TargetPointerWidth]
  /\ InitClang

Init ==
  /\ features = BuildFeatures
  /\ InitRegistry
  /\ InitLocator

\* How many values and references the callers keep.
RECURSIVE SumHeld(_)
SumHeld(n) == IF n = 0 THEN 0 ELSE held[n] + SumHeld(n - 1)
Kept == SumHeld(MaxInst) + Cardinality(owned)

\* ---------------------------------------------------------------------------
\* Arc<SharedLibrary>: dropping one reference.  When the strong count goes
\* from 1 to 0 the SharedLibrary is destroyed, which drops its
\* libloading::Library and so unloads the image.
RcDrop(r, x) == IF x = None THEN r ELSE [r EXCEPT ![x] = @ - 1]
ImgDrop(r, i, x) == IF x # None /\ r[x] = 1 THEN [i EXCEPT ![x] = "closed"] ELSE i
ClosesDrop(r, c, x) == IF x # None /\ r[x] = 1 THEN [c EXCEPT ![x] = @ + 1] ELSE c

\* Arc::clone: one more strong reference.
RcClone(r, x) == IF x = None THEN r ELSE [r EXCEPT ![x] = @ + 1]

\* Outcomes of build::find_shared_library: Ok(path); Err(message) with the
\* message find built, here after a search without a candidate and after one
\* whose only candidate was rejected; or the panic of find's unwrap when
\* llvm-config ran and printed nothing, which returns nothing.
FindErrors ==
  {ErrMessage(SharedLibraryFiles, "LIBCLANG_PATH", skipped) :
     skipped \in {<<>>, <<<<"/usr/lib/libclang.so", "invalid ELF header">>>>}}
FindPanics == {UnwrapNoneMsg}
FindResults == Files \cup FindErrors \cup FindPanics
\* More installations: an older library without the newer entry point, and a
\* library that exports none of the registry's symbols.
BindResults == FindResults \cup {"/usr/lib/libclang.so.3.9", "/usr/local/lib/libclang.so"}

\* Variant: a symbol that cannot be resolved fails the load.
LoadOutcome_strict(r) ==
  IF r \in FindPanics THEN "panic"
  ELSE IF r \in FindErrors THEN "DiscoveryFailed"
  ELSE IF ~Openable(r) THEN "OpenFailed"
  ELSE IF \E e \in Registry : CfgHolds(e) /\ e \notin Exports(r) THEN "SymbolMissing"
  ELSE "Ok"

\* Variant: a file that cannot be opened is passed on all the same.
LoadOutcome_lenient(r) ==
  IF r \in FindPanics THEN "panic" ELSE IF r \in FindErrors THEN "DiscoveryFailed" ELSE "Ok"

\* load_manually's result for a given outcome of find_shared_library; the
\* panic of find passes through load_manually and load.
LoadOutcome(r) ==
  IF r \in FindPanics THEN "panic"
  ELSE IF r \in FindErrors THEN "DiscoveryFailed"
  ELSE IF ~Openable(r) THEN "OpenFailed"
  ELSE "Ok"

\* The message of load_manually's Err: the one find_shared_library
\* returned, passed on by try!, or the one made for the file that could not
\* be opened; and the message of the panic that passes through.
OpenFailedMsg(f) ==
  "the " \o Backquote \o "libclang" \o Backquote \o " shared library could not be opened: " \o f
LoadMessage(r) == IF r \in FindErrors \cup FindPanics THEN r ELSE OpenFailedMsg(r)

\* What a call of load or load_manually did after find_shared_library
\* ended in r: found is the path of Ok(path).
Loading(op, t, val, res, r) ==
  [Call(op, t, None, val, res, TRUE)
     EXCEPT !.found = IF r \in FindErrors \cup FindPanics THEN NoFile ELSE r,
            !.msg = IF res = "Ok" THEN "" ELSE LoadMessage(r)]

\* is_loaded(): LIBRARY.with(|l| l.borrow().is_some()).
IsLoaded(t) == slot[t] # None

\* ---------------------------------------------------------------------------
\* Variant: load_manually also installs what it loaded in the caller's slot.
load_manually_installing(t, r) ==
  /\ status[t] = "running"
  /\ LoadOutcome(r) = "Ok" => nextId <= MaxInst /\ Kept < MaxHeld
  /\ IF LoadOutcome(r) = "Ok"
       THEN LET n == nextId
                o == slot[t]
                rc1 == [rc EXCEPT ![n] = 2]
                img1 == [img EXCEPT ![n] = "open"]
            IN /\ file' = [file EXCEPT ![n] = r]
               /\ functions' = [functions EXCEPT ![n] = Bind(r)]
               /\ nextId' = n + 1
               /\ slot' = [slot EXCEPT ![t] = n]
               /\ held' = [held EXCEPT ![n] = 1]
               /\ rc' = RcDrop(rc1, o)
               /\ img' = ImgDrop(rc1, img1, o)
               /\ closes' = ClosesDrop(rc1, closes, o)
               /\ latest' = [latest EXCEPT ![t] = Wrote("load", n)]
               /\ last' = Loading("load_manually", t, n, "Ok", r)
       ELSE /\ UNCHANGED <<img, file, functions, nextId, slot, rc, closes, latest, held>>
            /\ last' = Loading("load_manually", t, None, LoadOutcome(r), r)
  /\ UNCHANGED <<status, owned>>

\* load_manually(): find the file, open it, bind every entry, return the
\* SharedLibrary to the caller.  No slot is touched.
load_manually(t, r) ==
  /\ status[t] = "running"
  /\ LoadOutcome(r) = "Ok" => nextId <= MaxInst /\ Kept < MaxHeld
  /\ IF LoadOutcome(r) = "Ok"
       THEN /\ img' = [img EXCEPT ![nextId] = "open"]
            /\ file' = [file EXCEPT ![nextId] = r]
            /\ functions' = [functions EXCEPT ![nextId] = Bind(r)]
            /\ owned' = owned \cup {nextId}
            /\ nextId' = nextId + 1
            /\ last' = Loading("load_manually", t, nextId, "Ok", r)
       ELSE /\ UNCHANGED <<img, file, functions, owned, nextId>>
            /\ last' = Loading("load_manually", t, None, LoadOutcome(r), r)
  /\ UNCHANGED <<status, slot, rc, closes, held, latest>>

\* Variant: load keeps the instance already installed, as a caller that
\* tests is_loaded() first would.
load_if_empty(t, r) ==
  /\ status[t] = "running"
  /\ LoadOutcome(r) = "Ok" /\ slot[t] = None => nextId <= MaxInst
  /\ IF LoadOutcome(r) = "Ok" /\ slot[t] = None
       THEN LET n == nextId
            IN /\ file' = [file EXCEPT ![n] = r]
               /\ functions' = [functions EXCEPT ![n] = Bind(r)]
               /\ nextId' = n + 1
               /\ slot' = [slot EXCEPT ![t] = n]
               /\ rc' = [rc EXCEPT ![n] = 1]
               /\ img' = [img EXCEPT ![n] = "open"]
               /\ latest' = [latest EXCEPT ![t] = Wrote("load", n)]
               /\ last' = Loading("load", t, None, "Ok", r)
               /\ UNCHANGED closes
       ELSE /\ UNCHANGED <<img, file, functions, nextId, slot, rc, closes, latest>>
            /\ last' = Loading("load", t, slot[t], LoadOutcome(r), r)
  /\ UNCHANGED <<status, owned, held>>

\* Variant: load binds the new file into the table of the instance already
\* installed.
load_rebinding(t, r) ==
  /\ status[t] = "running"
  /\ LoadOutcome(r) = "Ok" /\ slot[t] = None => nextId <= MaxInst
  /\ IF LoadOutcome(r) = "Ok" /\ slot[t] = None
       THEN LET n == nextId
            IN /\ file' = [file EXCEPT ![n] = r]
               /\ functions' = [functions EXCEPT ![n] = Bind(r)]
               /\ nextId' = n + 1
               /\ slot' = [slot EXCEPT ![t] = n]
               /\ rc' = [rc EXCEPT ![n] = 1]
               /\ img' = [img EXCEPT ![n] = "open"]
               /\ latest' = [latest EXCEPT ![t] = Wrote("load", n)]
               /\ last' = Loading("load", t, None, "Ok", r)
               /\ UNCHANGED closes
       ELSE IF LoadOutcome(r) = "Ok"
       THEN /\ file' = [file EXCEPT ![slot[t]] = r]
            /\ functions' = [functions EXCEPT ![slot[t]] = Bind(r)]
            /\ latest' = [latest EXCEPT ![t] = Wrote("load", slot[t])]
            /\ last' = Loading("load", t, None, "Ok", r)
            /\ UNCHANGED <<img, nextId, slot, rc, closes>>
       ELSE /\ UNCHANGED <<img, file, functions, nextId, slot, rc, closes, latest>>
            /\ last' = Loading("load", t, None, LoadOutcome(r), r)
  /\ UNCHANGED <<status, owned, held>>

\* Variant: load empties the slot before it runs load_manually, so a failed
\* load leaves the thread without its instance.
load_clearing(t, r) ==
  /\ status[t] = "running"
  /\ LoadOutcome(r) = "Ok" => nextId <= MaxInst
  /\ IF LoadOutcome(r) = "Ok"
       THEN LET n == nextId
                o == slot[t]
                rc1 == [rc EXCEPT ![n] = 1]
                img1 == [img EXCEPT ![n] = "open"]
            IN /\ file' = [file EXCEPT ![n] = r]
               /\ functions' = [functions EXCEPT ![n] = Bind(r)]
               /\ nextId' = n + 1
               /\ slot' = [slot EXCEPT ![t] = n]
               /\ rc' = RcDrop(rc1, o)
               /\ img' = ImgDrop(rc1, img1, o)
               /\ closes' = ClosesDrop(rc1, closes, o)
               /\ latest' = [latest EXCEPT ![t] = Wrote("load", n)]
               /\ last' = Loading("load", t, o, "Ok", r)
       ELSE /\ slot' = [slot EXCEPT ![t] = None]
            /\ rc' = RcDrop(rc, slot[t])
            /\ img' = ImgDrop(rc, img, slot[t])
            /\ closes' = ClosesDrop(rc, closes, slot[t])
            /\ latest' = [latest EXCEPT ![t] = Wrote("load", None)]
            /\ last' = Loading("load", t, None, LoadOutcome(r), r)
            /\ UNCHANGED <<file, functions, nextId>>
  /\ UNCHANGED <<status, owned, held>>

\* load(): Arc::new(try!(load_manually())), then the slot is overwritten,
\* which drops the Arc it held.
load(t, r) ==
  /\ status[t] = "running"
  /\ LoadOutcome(r) = "Ok" => nextId <= MaxInst
  /\ IF LoadOutcome(r) = "Ok"
       THEN LET n == nextId
                o == slot[t]
                rc1 == [rc EXCEPT ![n] = 1]
                img1 == [img EXCEPT ![n] = "open"]
            IN /\ file' = [file EXCEPT ![n] = r]
               /\ functions' = [functions EXCEPT ![n] = Bind(r)]
               /\ nextId' = n + 1
               /\ slot' = [slot EXCEPT ![t] = n]
               /\ rc' = RcDrop(rc1, o)
               /\ img' = ImgDrop(rc1, img1, o)
               /\ closes' = ClosesDrop(rc1, closes, o)
               /\ latest' = [latest EXCEPT ![t] = Wrote("load", n)]
               /\ last' = Loading("load", t, o, "Ok", r)
       ELSE /\ UNCHANGED <<img, file, functions, nextId, slot, rc, closes, latest>>
            /\ last' = Loading("load", t, None, LoadOutcome(r), r)
  /\ UNCHANGED <<status, owned, held>>

\* Variant: get_library moves the occupant out of the slot (take) instead
\* of cloning it.
get_library_take(t) ==
  /\ status[t] = "running"
  /\ slot[t] # None => Kept < MaxHeld
  /\ slot' = [slot EXCEPT ![t] = None]
  /\ held' = IF slot[t] = None THEN held ELSE [held EXCEPT ![slot[t]] = @ + 1]
  /\ last' = Call("get_library", t, None, slot[t], IF slot[t] = None THEN "None" ELSE "Some", FALSE)
  /\ UNCHANGED <<status, rc, img, closes, file, functions, nextId, owned, latest>>

\* Variant: get_library hands out the slot's reference without counting it.
get_library_uncounted(t) ==
  /\ status[t] = "running"
  /\ slot[t] # None => Kept < MaxHeld
  /\ held' = IF slot[t] = None THEN held ELSE [held EXCEPT ![slot[t]] = @ + 1]
  /\ last' = Call("get_library", t, None, slot[t], IF slot[t] = None THEN "None" ELSE "Some", FALSE)
  /\ UNCHANGED <<status, slot, rc, img, closes, file, functions, nextId, owned, latest>>

\* get_library(): a clone of the slot's Option<Arc<SharedLibrary>>.
get_library(t) ==
  /\ status[t] = "running"
  /\ slot[t] # None => Kept < MaxHeld
  /\ rc' = RcClone(rc, slot[t])
  /\ held' = IF slot[t] = None THEN held ELSE [held EXCEPT ![slot[t]] = @ + 1]
  /\ last' = Call("get_library", t, None, slot[t], IF slot[t] = None THEN "None" ELSE "Some", FALSE)
  /\ UNCHANGED <<status, slot, img, closes, file, functions, nextId, owned, latest>>

\* Variant: set_library installs only into an empty slot; given an occupied
\* slot it drops its argument and keeps the occupant.
set_library_keeping(t, v) ==
  /\ status[t] = "running"
  /\ v # None => held[v] > 0
  /\ slot' = [slot EXCEPT ![t] = IF slot[t] = None THEN v ELSE slot[t]]
  /\ held' = IF v = None THEN held ELSE [held EXCEPT ![v] = @ - 1]
  /\ rc' = IF slot[t] = None THEN rc ELSE RcDrop(rc, v)
  /\ img' = IF slot[t] = None THEN img ELSE ImgDrop(rc, img, v)
  /\ closes' = IF slot[t] = None THEN closes ELSE ClosesDrop(rc, closes, v)
  /\ latest' = [latest EXCEPT ![t] = Wrote(IF v = None THEN "clear" ELSE "set", v)]
  /\ last' = Call("set_library", t, v, None, "None", FALSE)
  /\ UNCHANGED <<status, file, functions, nextId, owned>>

\* Variant: set_library overwrites the slot, dropping the previous occupant,
\* and returns None.
set_library_dropping(t, v) ==
  /\ status[t] = "running"
  /\ v # None => held[v] > 0
  /\ slot' = [slot EXCEPT ![t] = v]
  /\ held' = IF v = None THEN held ELSE [held EXCEPT ![v] = @ - 1]
  /\ rc' = RcDrop(rc, slot[t])
  /\ img' = ImgDrop(rc, img, slot[t])
  /\ closes' = ClosesDrop(rc, closes, slot[t])
  /\ latest' = [latest EXCEPT ![t] = Wrote(IF v = None THEN "clear" ELSE "set", v)]
  /\ last' = Call("set_library", t, v, None, "None", FALSE)
  /\ UNCHANGED <<status, file, functions, nextId, owned>>

\* Variant: set_library(Some(_)) runs the load pipeline again instead of
\* installing its argument.
set_library_reloading(t, v) ==
  /\ status[t] = "running"
  /\ v # None => held[v] > 0 /\ nextId <= MaxInst
  /\ slot[t] # None /\ v = None => Kept < MaxHeld
  /\ slot' = [slot EXCEPT ![t] = IF v = None THEN None ELSE nextId]
  /\ held' = IF slot[t] = None THEN held ELSE [held EXCEPT ![slot[t]] = @ + 1]
  /\ IF v = None
       THEN UNCHANGED <<rc, img, file, functions, nextId>>
       ELSE /\ rc' = [rc EXCEPT ![nextId] = 1]
            /\ img' = [img EXCEPT ![nextId] = "open"]
            /\ file' = [file EXCEPT ![nextId] = file[v]]
            /\ functions' = [functions EXCEPT ![nextId] = Bind(file[v])]
            /\ nextId' = nextId + 1
  /\ latest' = [latest EXCEPT ![t] = Wrote(IF v = None THEN "clear" ELSE "set", v)]
  /\ last' = Call("set_library", t, v, slot[t], IF slot[t] = None THEN "None" ELSE "Some", v # None)
  /\ UNCHANGED <<status, closes, owned>>

\* Variant: LIBRARY is one slot of the process instead of one per thread.
set_library_global(t, v) ==
  /\ status[t] = "running"
  /\ v # None => held[v] > 0
  /\ slot[t] # None /\ v = None => Kept < MaxHeld
  /\ slot' = [u \in Threads |-> IF status[u] = "running" THEN v ELSE slot[u]]
  /\ held' = LET h1 == IF v = None THEN held ELSE [held EXCEPT ![v] = @ - 1]
             IN IF slot[t] = None THEN h1 ELSE [h1 EXCEPT ![slot[t]] = @ + 1]
  /\ latest' = [latest EXCEPT ![t] = Wrote(IF v = None THEN "clear" ELSE "set", v)]
  /\ last' = Call("set_library", t, v, slot[t], IF slot[t] = None THEN "None" ELSE "Some", FALSE)
  /\ UNCHANGED <<status, rc, img, closes, file, functions, nextId, owned>>

\* set_library(library): mem::replace on the slot; the previous occupant is
\* returned to the caller, the argument is moved into the slot.
set_library(t, v) ==
  /\ status[t] = "running"
  /\ v # None => held[v] > 0
  /\ slot[t] # None /\ v = None => Kept < MaxHeld
  /\ slot' = [slot EXCEPT ![t] = v]
  /\ held' = LET h1 == IF v = None THEN held ELSE [held EXCEPT ![v] = @ - 1]
             IN IF slot[t] = None THEN h1 ELSE [h1 EXCEPT ![slot[t]] = @ + 1]
  /\ latest' = [latest EXCEPT ![t] = Wrote(IF v = None THEN "clear" ELSE "set", v)]
  /\ last' = Call("set_library", t, v, slot[t], IF slot[t] = None THEN "None" ELSE "Some", FALSE)
  /\ UNCHANGED <<status, rc, img, closes, file, functions, nextId, owned>>

\* Variant: unload tests the slot after clearing it.
unload_testing_after(t) ==
  /\ status[t] = "running"
  /\ slot' = [slot EXCEPT ![t] = None]
  /\ rc' = RcDrop(rc, slot[t])
  /\ img' = ImgDrop(rc, img, slot[t])
  /\ closes' = ClosesDrop(rc, closes, slot[t])
  /\ latest' = [latest EXCEPT ![t] = Wrote("clear", None)]
  /\ last' = Call("unload", t, None, None, "NotLoaded", FALSE)
  /\ UNCHANGED <<status, file, functions, nextId, owned, held>>

\* Variant: unload reports on the slot without clearing it.
unload_peeking(t) ==
  /\ status[t] = "running"
  /\ latest' = [latest EXCEPT ![t] = Wrote("clear", None)]
  /\ last' = Call("unload", t, None, None, IF slot[t] # None THEN "Ok" ELSE "NotLoaded", FALSE)
  /\ UNCHANGED <<status, slot, rc, img, closes, file, functions, nextId, owned, held>>

\* unload(): set_library(None); the previous occupant is dropped at the end
\* of the call; Ok when there was one, otherwise the error.
unload(t) ==
  /\ status[t] = "running"
  /\ slot' = [slot EXCEPT ![t] = None]
  /\ rc' = RcDrop(rc, slot[t])
  /\ img' = ImgDrop(rc, img, slot[t])
  /\ closes' = ClosesDrop(rc, closes, slot[t])
  /\ latest' = [latest EXCEPT ![t] = Wrote("clear", None)]
  /\ last' = Call("unload", t, None, None, IF slot[t] # None THEN "Ok" ELSE "NotLoaded", FALSE)
  /\ UNCHANGED <<status, file, functions, nextId, owned, held>>

\* is_loaded(): reads the slot.
is_loaded(t) ==
  /\ status[t] = "running"
  /\ last' = Call("is_loaded", t, None, None, IF IsLoaded(t) THEN "true" ELSE "false", FALSE)
  /\ UNCHANGED <<status, slot, rc, img, closes, file, functions, nextId, owned, held, latest>>

\* The diagnostics of a generated wrapper.
NotLoadedMsg ==
  "a " \o Backquote \o "libclang" \o Backquote \o " shared library is not loaded on this thread"
MissingMsg(e) == "function not loaded: " \o e

\* The name of the probe of entry e: the function is_loaded of module e.
ProbeOf(e) == e \o "::is_loaded"

\* Variant: the wrapper calls whatever the field holds.
call_unchecked(t, e) ==
  /\ status[t] = "running"
  /\ CfgHolds(e)
  /\ last' = IF slot[t] = None
               THEN Call(e, t, None, None, NotLoadedMsg, FALSE)
               ELSE Call(e, t, None, slot[t], "called", FALSE)
  /\ UNCHANGED <<status, slot, rc, img, closes, file, functions, nextId, owned, held, latest>>

\* The generated wrapper  unsafe fn $name(..): with_library runs the closure
\* on the occupant, and the closure panics when the field is None; expect
\* panics when with_library found the slot empty; otherwise the function is
\* called.  The wrapper exists only when the entry's cfg holds.
call(t, e) ==
  /\ status[t] = "running"
  /\ CfgHolds(e)
  /\ last' = IF slot[t] = None
               THEN Call(e, t, None, None, NotLoadedMsg, FALSE)
               ELSE IF functions[slot[t]][e] = "Some"
                 THEN Call(e, t, None, slot[t], "called", FALSE)
                 ELSE Call(e, t, None, None, MissingMsg(e), FALSE)
  /\ UNCHANGED <<status, slot, rc, img, closes, file, functions, nextId, owned, held, latest>>

\* Variant: the probe answers for the instance of any thread.
entry_is_loaded_anywhere(t, e) ==
  /\ status[t] = "running"
  /\ CfgHolds(e)
  /\ last' = Call(ProbeOf(e), t, None, None,
                  IF \E u \in Threads : slot[u] # None /\ functions[slot[u]][e] = "Some"
                    THEN "true" ELSE "false",
                  FALSE)
  /\ UNCHANGED <<status, slot, rc, img, closes, file, functions, nextId, owned, held, latest>>

\* The generated probe  $name::is_loaded(): whether the field is Some in the
\* occupant's table, false when the slot is empty.
entry_is_loaded(t, e) ==
  /\ status[t] = "running"
  /\ CfgHolds(e)
  /\ last' = Call(ProbeOf(e), t, None, None,
                  IF slot[t] # None /\ functions[slot[t]][e] = "Some" THEN "true" ELSE "false",
                  FALSE)
  /\ UNCHANGED <<status, slot, rc, img, closes, file, functions, nextId, owned, held, latest>>

\* ---------------------------------------------------------------------------
\* Steps of the code around the registry.

\* A caller wraps an owned SharedLibrary in an Arc (as load does).
ArcNew(x) ==
  /\ x \in owned
  /\ owned' = owned \ {x}
  /\ rc' = [rc EXCEPT ![x] = 1]
  /\ held' = [held EXCEPT ![x] = 1]
  /\ last' = Other
  /\ UNCHANGED <<status, slot, img, closes, file, functions, nextId, latest>>

\* A caller clones an Arc reference it keeps.
CloneRef(x) ==
  /\ held[x] > 0
  /\ Kept < MaxHeld
  /\ held' = [held EXCEPT ![x] = @ + 1]
  /\ rc' = RcClone(rc, x)
  /\ last' = Other
  /\ UNCHANGED <<status, slot, img, closes, file, functions, nextId, owned, latest>>

\* A caller drops an Arc reference it keeps.
DropRef(x) ==
  /\ held[x] > 0
  /\ held' = [held EXCEPT ![x] = @ - 1]
  /\ rc' = RcDrop(rc, x)
  /\ img' = ImgDrop(rc, img, x)
  /\ closes' = ClosesDrop(rc, closes, x)
  /\ last' = Other
  /\ UNCHANGED <<status, slot, file, functions, nextId, owned, latest>>

\* A caller drops an owned SharedLibrary: its Library is dropped with it.
DropOwned(x) ==
  /\ x \in owned
  /\ owned' = owned \ {x}
  /\ img' = [img EXCEPT ![x] = "closed"]
  /\ closes' = [closes EXCEPT ![x] = @ + 1]
  /\ last' = Other
  /\ UNCHANGED <<status, slot, rc, file, functions, nextId, held, latest>>

\* A thread ends, the main thread as any other: the destructor of its
\* thread-local drops the slot.  The other threads run on.
ThreadExit(t) ==
  /\ status[t] = "running"
  /\ status' = [status EXCEPT ![t] = "exited"]
  /\ slot' = [slot EXCEPT ![t] = None]
  /\ rc' = RcDrop(rc, slot[t])
  /\ img' = ImgDrop(rc, img, slot[t])
  /\ closes' = ClosesDrop(rc, closes, slot[t])
  /\ latest' = [latest EXCEPT ![t] = Wrote("none", None)]
  /\ last' = Other
  /\ UNCHANGED <<file, functions, nextId, owned, held>>

\* What no operation of the registry changes.
Frame ==
  UNCHANGED <<features, libclang_path, llvm_config, fsys, located, target, clang_path, path_var,
              bins>>

Next ==
  \/ \E t \in Threads, r \in FindResults : load_manually(t, r) /\ Frame
  \/ \E t \in Threads, r \in FindResults : load(t, r) /\ Frame
  \/ \E t \in Threads : get_library(t) /\ Frame
  \/ \E t \in Threads, v \in Inst \cup {None} : set_library(t, v) /\ Frame
  \/ \E t \in Threads : unload(t) /\ Frame
  \/ \E t \in Threads : is_loaded(t) /\ Frame
  \/ \E x \in Inst : ArcNew(x) /\ Frame
  \/ \E x \in Inst : CloneRef(x) /\ Frame
  \/ \E x \in Inst : DropRef(x) /\ Frame
  \/ \E x \in Inst : DropOwned(x) /\ Frame
  \/ \E t \in Threads : ThreadExit(t) /\ Frame

Spec == Init /\ [][Next]_vars

\* The registry under any of the build configurations and with any of the
\* installations, with the generated wrappers and probes.
InitBind ==
  /\ features \in Builds
  /\ InitRegistry
  /\ InitLocator

NextBind ==
  \/ \E t \in Threads, r \in BindResults : load_manually(t, r) /\ Frame
  \/ \E t \in Threads, r \in BindResults : load(t, r) /\ Frame
  \/ \E t \in Threads : unload(t) /\ Frame
  \/ \E t \in Threads, e \in Registry : call(t, e) /\ Frame
  \/ \E t \in Threads, e \in Registry : entry_is_loaded(t, e) /\ Frame
  \/ \E x \in Inst : DropOwned(x) /\ Frame

SpecBind == InitBind /\ [][NextBind]_vars

\* The probes with instances that callers load by themselves and hand to
\* threads.
NextProbe ==
  \/ \E t \in Threads, r \in BindResults : load_manually(t, r) /\ Frame
  \/ \E x \in Inst : ArcNew(x) /\ Frame
  \/ \E t \in Threads, v \in Inst \cup {None} : set_library(t, v) /\ Frame
  \/ \E t \in Threads, e \in Registry : entry_is_loaded(t, e) /\ Frame

SpecProbe == InitBind /\ [][NextProbe]_vars

\* The registry with its wrappers and probes and with instances shared
\* between threads and callers, under any of the build configurations and
\* with any of the installations.
NextShare ==
  \/ \E t \in Threads, r \in BindResults : load_manually(t, r) /\ Frame
  \/ \E t \in Threads, r \in BindResults : load(t, r) /\ Frame
  \/ \E t \in Threads : get_library(t) /\ Frame
  \/ \E t \in Threads, v \in Inst \cup {None} : set_library(t, v) /\ Frame
  \/ \E t \in Threads : unload(t) /\ Frame
  \/ \E t \in Threads : is_loaded(t) /\ Frame
  \/ \E t \in Threads, e \in Registry : call(t, e) /\ Frame
  \/ \E t \in Threads, e \in Registry : entry_is_loaded(t, e) /\ Frame
  \/ \E x \in Inst : ArcNew(x) /\ Frame
  \/ \E x \in Inst : CloneRef(x) /\ Frame
  \/ \E x \in Inst : DropRef(x) /\ Frame
  \/ \E x \in Inst : DropOwned(x) /\ Frame
  \/ \E t \in Threads : ThreadExit(t) /\ Frame

SpecShare == InitBind /\ [][NextShare]_vars

\* The locator by itself: any environment, any installation, and one of
\* the functions of mod build applied to them.
FrameFind ==
  UNCHANGED <<features, status, slot, rc, img, closes, file, functions, nextId, owned, held,
              latest, last, libclang_path, llvm_config, fsys, target, clang_path, path_var,
              bins>>

\* find_shared_library(): find for the dynamic library's file names and
\* LIBCLANG_PATH.
find_shared_library ==
  /\ located = NoCall
  /\ located' = Located("find", "",
                        find(SharedLibraryFiles,
                             [name |-> "LIBCLANG_PATH", value |-> libclang_path],
                             llvm_config, fsys),
                        <<>>, <<>>)
  /\ FrameFind

\* contains(directory, files) for the dynamic library's file names.
Contains(directory) ==
  /\ located = NoCall
  /\ located' = Located("contains", directory, NoOutcome,
                        contains(directory, SharedLibraryFiles, fsys), <<>>)
  /\ FrameFind

\* parse_version(file).
ParseVersion(path) ==
  /\ located = NoCall
  /\ located' = Located("parse_version", path, NoOutcome, <<>>, parse_version(path))
  /\ FrameFind

InitFind ==
  /\ features = BuildFeatures
  /\ InitRegistry
  /\ libclang_path \in EnvValues
  /\ llvm_config \in HelperRuns
  /\ fsys \in FileSystems
  /\ located = NoCall
  /\ target = [os |-> TargetOs, width |-> TargetPointerWidth]
  /\ InitClang

NextFind ==
  \/ find_shared_library
  \/ \E d \in ContainsInputs : Contains(d)
  \/ \E p \in ParseInputs(fsys) : ParseVersion(p)

SpecFind == InitFind /\ [][NextFind]_vars

\* The locator of the clang executable by itself: any environment, any
\* directories of executables, and Clang::find with or without a path.
ClangFind(hint) ==
  /\ located = NoCall
  /\ located' = Located("Clang::find", hint,
                        Clang_find(hint, clang_path, llvm_config, path_var, bins), <<>>, <<>>)
  /\ UNCHANGED <<clang_path, path_var, bins>>
  /\ UNCHANGED <<features, status, slot, rc, img, closes, file, functions, nextId, owned, held,
                 latest, last, libclang_path, llvm_config, fsys, target>>

InitClangFind ==
  /\ features = BuildFeatures
  /\ InitRegistry
  /\ libclang_path = Unset
  /\ llvm_config \in BindirRuns
  /\ fsys = <<>>
  /\ located = NoCall
  /\ target = [os |-> TargetOs, width |-> TargetPointerWidth]
  /\ clang_path \in ClangPathValues
  /\ path_var \in PathValues
  /\ bins \in BinSystems

NextClang == \E hint \in Hints : ClangFind(hint)

SpecClang == InitClangFind /\ [][NextClang]_vars

\* The validator by itself: any platform, any file, and Library::check
\* applied to them for either kind of library.
Check(library) ==
  /\ located = NoCall
  /\ located' = Located("check", library,
                        [NoOutcome EXCEPT !.res = Library_check(target.os, target.width, library,
                                                                CheckPath, fsys)],
                        <<>>, <<>>)
  /\ FrameFind

InitCheck ==
  /\ features = BuildFeatures
  /\ InitRegistry
  /\ libclang_path = Unset
  /\ llvm_config = NoHelper
  /\ fsys \in CheckFiles
  /\ located = NoCall
  /\ target \in [os : Platforms, width : Widths]
  /\ InitClang

NextCheck == \E library \in Libraries : Check(library)

SpecCheck == InitCheck /\ [][NextCheck]_vars

\* Every reference to x there is: slots, callers' Arcs, a caller's owned value.
Holders(x) ==
  Cardinality({t \in Threads : slot[t] = x}) + held[x] + (IF x \in owned THEN 1 ELSE 0)

TypeOK ==
  /\ status \in [Threads -> {"running", "exited"}]
  /\ slot \in [Threads -> Inst \cup {None}]
  /\ rc \in [Inst -> 0..(NumThreads + MaxHeld)]
  /\ img \in [Inst -> {"none", "open", "closed"}]
  /\ nextId \in 1..(MaxInst + 1)
  /\ owned \subseteq Inst
  /\ held \in [Inst -> 0..MaxHeld]

\* ---------------------------------------------------------------------------
\* Properties.

\* Holders(x) in the state a step leads to.
HoldersNext(x) ==
  Cardinality({t \in Threads : slot'[t] = x}) + held'[x] + (IF x \in owned' THEN 1 ELSE 0)

Running(t) == status[t] = "running"
Calls == {"load", "load_manually", "unload", "get_library", "set_library", "is_loaded"}

\* C1: on every thread t, when the latest call that wrote t's slot was
\* set_library(Some(x)), the next get_library() of t (whatever other threads
\* and callers did in between, and whatever the slot held before the set)
\* returns Some reference to that same x: no instance is created for it, and
\* x is alive.
C1_SetThenGet ==
  [][\A t \in Threads :
       (latest[t].op = "set" /\ last'.op = "get_library" /\ last'.t = t)
         => /\ last'.res = "Some"
            /\ last'.val = latest[t].arg
            /\ nextId' = nextId
            /\ img'[last'.val] = "open"]_vars

\* A get_library() that returned the instance the thread had set, which had
\* replaced another occupant.
C1_Witness ==
  /\ last.op = "get_library"
  /\ last.val # None
  /\ latest[last.t] = Wrote("set", last.val)
  /\ \E y \in Inst : y # last.val /\ held[y] > 0

\* C2: unload() on thread t returns NotLoaded exactly when t's slot was empty
\* before the call and Ok exactly when it was occupied; the slot is empty
\* afterwards in both cases; after a call that cleared the slot (unload,
\* set_library(None)) the next unload() of t reports NotLoaded.
C2_Unload ==
  [][\A t \in Threads :
       (last'.op = "unload" /\ last'.t = t)
         => /\ last'.res = "NotLoaded" <=> slot[t] = None
            /\ last'.res = "Ok" <=> slot[t] # None
            /\ slot'[t] = None
            /\ latest[t].op = "clear" => last'.res = "NotLoaded"]_vars

\* An unload() that failed on a slot an earlier call had cleared, after an
\* image was released.
C2_Witness ==
  /\ last.op = "unload"
  /\ last.res = "NotLoaded"
  /\ slot[last.t] = None
  /\ \E x \in Inst : img[x] = "closed"

\* C3: set_library(v) on thread t returns exactly what t's slot held before
\* the call (None when it was empty), leaves the slot holding exactly v, and
\* drops nothing: no strong count and no image changes, and a previous
\* occupant other than v is now kept by the caller.
C3_SetLibrary ==
  [][\A t \in Threads :
       (last'.op = "set_library" /\ last'.t = t)
         => /\ last'.val = slot[t]
            /\ last'.res = (IF slot[t] = None THEN "None" ELSE "Some")
            /\ slot'[t] = last'.arg
            /\ rc' = rc
            /\ img' = img
            /\ (slot[t] # None /\ slot[t] # last'.arg)
                 => held'[slot[t]] = held[slot[t]] + 1]_vars

\* A set_library(Some(x)) that replaced another, still open, occupant.
C3_Witness ==
  /\ last.op = "set_library"
  /\ last.arg # None
  /\ last.val # None
  /\ last.val # last.arg
  /\ slot[last.t] = last.arg
  /\ img[last.val] = "open"
  /\ held[last.val] > 0

\* C4: get_library() on thread t changes no slot; on an empty slot it returns
\* None and no count changes; on an occupied slot it returns Some reference
\* to the occupant, whose strong count grows by exactly one; no image is
\* opened or unloaded.
C4_GetLibrary ==
  [][\A t \in Threads :
       (last'.op = "get_library" /\ last'.t = t)
         => /\ slot' = slot
            /\ last'.val = slot[t]
            /\ slot[t] = None => (last'.res = "None" /\ rc' = rc)
            /\ slot[t] # None
                 => (last'.res = "Some" /\ rc' = [rc EXCEPT ![slot[t]] = @ + 1])
            /\ img' = img]_vars

\* A get_library() that returned the occupant, still installed and now
\* referenced twice.
C4_Witness ==
  /\ last.op = "get_library"
  /\ last.val # None
  /\ slot[last.t] = last.val
  /\ rc[last.val] >= 2

\* C5: a successful load() on thread t leaves t's slot holding an instance
\* that did not exist before the call, open and referenced by that slot
\* alone; a previous occupant loses exactly one reference and its image is
\* unloaded in this step if and only if it had no other holder.
C5_Load ==
  [][\A t \in Threads :
       (last'.op = "load" /\ last'.t = t /\ last'.res = "Ok")
         => /\ slot'[t] # None
            /\ img[slot'[t]] = "none"
            /\ img'[slot'[t]] = "open"
            /\ rc'[slot'[t]] = 1
            /\ HoldersNext(slot'[t]) = 1
            /\ slot[t] # None
                 => /\ img[slot[t]] = "open"
                    /\ rc'[slot[t]] = rc[slot[t]] - 1
                    /\ HoldersNext(slot[t]) = Holders(slot[t]) - 1
                    /\ img'[slot[t]] = "closed" <=> Holders(slot[t]) = 1]_vars

\* A successful load() that replaced an occupant which a caller still holds,
\* so that its image stayed open.
C5_Witness ==
  /\ last.op = "load"
  /\ last.res = "Ok"
  /\ last.val # None
  /\ img[last.val] = "open"
  /\ held[last.val] > 0
  /\ slot[last.t] # last.val

\* C6: load_manually() changes no thread's slot and no reference held on any
\* instance, whether it succeeds or fails; on success the instance returned
\* did not exist before, is open, and is owned by the caller alone; on
\* failure nothing is created.
C6_LoadManually ==
  [][\A t \in Threads :
       (last'.op = "load_manually" /\ last'.t = t)
         => /\ slot' = slot
            /\ \A u \in Threads : IsLoaded(u)' = IsLoaded(u)
            /\ rc' = rc
            /\ held' = held
            /\ last'.res = "Ok"
                 => /\ last'.val # None
                    /\ img[last'.val] = "none"
                    /\ img'[last'.val] = "open"
                    /\ last'.val \in owned'
                    /\ HoldersNext(last'.val) = 1
                    /\ \A u \in Threads : slot'[u] # last'.val
            /\ last'.res # "Ok" => (img' = img /\ owned' = owned /\ nextId' = nextId)]_vars

\* A successful load_manually() on a thread whose slot is occupied by another
\* instance.
C6_Witness ==
  /\ last.op = "load_manually"
  /\ last.res = "Ok"
  /\ last.val \in owned
  /\ slot[last.t] # None
  /\ slot[last.t] # last.val

\* C7: every slot starts empty; is_loaded() on a running thread is true
\* exactly when the latest call that wrote its slot was a successful load()
\* or a set_library(Some(_)); and a running thread's slot goes from empty to
\* loaded, or from one occupant to another, only in a successful load() or a
\* set_library(Some(_)) of that thread, and from loaded to empty only in an
\* unload() or a set_library(None) of that thread.
Installs(c, t) ==
  /\ c.t = t
  /\ \/ c.op = "load" /\ c.res = "Ok"
     \/ c.op = "set_library" /\ c.arg # None
Clears(c, t) ==
  /\ c.t = t
  /\ \/ c.op = "unload"
     \/ c.op = "set_library" /\ c.arg = None
C7_SlotStates ==
  /\ \A t \in Threads : ~IsLoaded(t)
  /\ [](\A t \in Threads : Running(t) => (IsLoaded(t) <=> latest[t].op \in {"load", "set"}))
  /\ [][\A t \in Threads :
          (Running(t) /\ Running(t)')
            => /\ (~IsLoaded(t) /\ IsLoaded(t)') => Installs(last', t)
               /\ (IsLoaded(t) /\ IsLoaded(t)' /\ slot'[t] # slot[t]) => Installs(last', t)
               /\ (IsLoaded(t) /\ ~IsLoaded(t)') => Clears(last', t)]_vars

\* One thread loaded by set_library(Some(_)) while another, once loaded, was
\* emptied by set_library(None).
C7_Witness ==
  /\ last.op = "set_library"
  /\ last.arg = None
  /\ last.val # None
  /\ ~IsLoaded(last.t)
  /\ \E u \in Threads : u # last.t /\ IsLoaded(u) /\ latest[u].op = "set"

\* C8: in every reachable state, for every instance: its image is open
\* exactly while some slot or caller holds a reference to it; it is closed
\* exactly when it was unloaded, which happens at most once; the strong count
\* of an instance in an Arc is the number of slots and callers referring to
\* it.  So the image is unloaded by the step that removes the last reference
\* and by no other.
C8_ReleasedOnce ==
  \A x \in Inst :
    /\ closes[x] <= 1
    /\ img[x] = "open" <=> Holders(x) > 0
    /\ img[x] = "closed" <=> closes[x] = 1
    /\ img[x] = "none" => closes[x] = 0
    /\ x \notin owned => rc[x] = Holders(x)

\* The main thread has ended and the image its slot held was unloaded;
\* another thread, running on, has just taken one more reference to the
\* instance in its own slot.
C8_Witness ==
  /\ status[MainThread] = "exited"
  /\ \E x \in Inst : img[x] = "closed" /\ closes[x] = 1
  /\ last.op = "get_library"
  /\ last.t # MainThread
  /\ last.val # None
  /\ img[last.val] = "open" /\ rc[last.val] >= 2

\* C9: when thread a's slot holds the instance a loaded with load() and
\* another thread b calls set_library(Some(that instance)), then afterwards
\* is_loaded() is true on b, b's slot refers to the same instance as a's,
\* a's slot is still occupied by it, the image is open, and the call ran no
\* discovery and opened no library.
C9_Handoff ==
  [][\A a, b \in Threads :
       (/\ a # b
        /\ latest[a].op = "load"
        /\ IsLoaded(a)
        /\ last'.op = "set_library" /\ last'.t = b /\ last'.arg = slot[a])
         => /\ IsLoaded(b)'
            /\ slot'[b] = slot[a]
            /\ slot'[a] = slot[a]
            /\ IsLoaded(a)'
            /\ img'[slot[a]] = "open"
            /\ ~last'.disc
            /\ nextId' = nextId]_vars

\* Thread b has installed by set_library the instance thread a loaded.
C9_Witness ==
  /\ last.op = "set_library"
  /\ last.arg # None
  /\ ~last.disc
  /\ slot[last.t] = last.arg
  /\ \E a \in Threads : a # last.t /\ latest[a].op = "load" /\ slot[a] = last.arg

\* C10: a call of load, load_manually, unload, get_library, set_library or
\* is_loaded made by thread t leaves the slot of every other thread, and so
\* is_loaded() on it, as it was.
C10_PerThread ==
  [][\A t \in Threads :
       (last'.op \in Calls /\ last'.t = t)
         => \A u \in Threads \ {t} :
              slot'[u] = slot[u] /\ IsLoaded(u)' = IsLoaded(u)]_vars

\* A thread has cleared its slot while another thread's slot stays occupied
\* by the instance the first one had.
C10_Witness ==
  /\ last.op = "unload"
  /\ last.res = "Ok"
  /\ \E u \in Threads : u # last.t /\ IsLoaded(u) /\ img[slot[u]] = "open" /\ rc[slot[u]] = 1
  /\ \E x \in Inst : img[x] = "closed"

\* ---------------------------------------------------------------------------
\* The function table and the generated wrappers, under SpecBind.

\* The instances created so far.
Created == {x \in Inst : x < nextId}

\* C11: a call of a generated wrapper by thread t reaches the foreign
\* function only when t's slot is occupied and the entry is Some in the
\* occupant's table; with an empty slot it halts with the not-loaded
\* diagnostic, whatever any table holds; with an occupant whose entry is not
\* Some it halts with "function not loaded: <symbol>", and calls nothing.
C11_Wrapper ==
  [][\A t \in Threads, e \in Registry :
       (last'.op = e /\ last'.t = t)
         => /\ slot[t] = None => last'.res = NotLoadedMsg
            /\ (slot[t] # None /\ functions[slot[t]][e] # "Some")
                 => last'.res = MissingMsg(e)
            /\ last'.res = "called"
                 <=> (slot[t] # None /\ functions[slot[t]][e] = "Some")
            /\ last'.res \in {"called", NotLoadedMsg, MissingMsg(e)}]_vars

\* A wrapper call that halted because the occupant's table lacks the entry,
\* while another instance has it.
C11_Witness ==
  /\ last.op \in Registry
  /\ last.res = MissingMsg(last.op)
  /\ slot[last.t] # None
  /\ functions[slot[last.t]][last.op] = "None"
  /\ \E x \in Created : functions[x][last.op] = "Some"

\* C12: an entry whose cfg does not hold in the build has no field in any
\* table, whatever the opened image exports, and no wrapper or probe of it is
\* ever called.
C12_Gated ==
  \A e \in Registry :
    ~CfgHolds(e)
      => /\ \A x \in Inst : functions[x][e] = "nofield"
         /\ last.op \notin {e, ProbeOf(e)}

\* An open instance of an image that exports a gated entry, in a build
\* without the feature.
C12_Witness ==
  \E x \in Created, e \in Registry :
    /\ ~CfgHolds(e)
    /\ e \in Exports(file[x])
    /\ img[x] = "open"
    /\ functions[x][e] = "nofield"

\* C13: in every table built, an entry whose cfg holds is Some exactly when
\* the image exports its name; and load and load_manually succeed whenever
\* a file was found and could be opened, whatever symbols it lacks.
C13_Available ==
  /\ \A x \in Created, e \in Registry :
       CfgHolds(e) => (functions[x][e] = "Some" <=> e \in Exports(file[x]))
  /\ (last.op \in {"load", "load_manually"} /\ last.found # NoFile /\ Openable(last.found))
       => last.res = "Ok"

\* A successful load() of an image that exports none of the entries.
C13_Witness ==
  /\ last.op = "load"
  /\ last.res = "Ok"
  /\ slot[last.t] # None
  /\ Exports(file[slot[last.t]]) = {}
  /\ \A e \in Registry : functions[slot[last.t]][e] # "Some"

C15_Immutable ==
  [][/\ \A x \in Created : functions'[x] = functions[x] /\ file'[x] = file[x]
     /\ \A t \in Threads :
          (last'.op = "load" /\ last'.t = t /\ last'.res = "Ok")
            => /\ slot'[t] \notin Created
               /\ slot'[t] \in Created']_vars

\* A successful load() over an occupant bound from another file, which
\* another thread, handed the instance, still has in its slot: both tables
\* exist and differ.
C15_Witness ==
  /\ last.op = "load"
  /\ last.res = "Ok"
  /\ last.val # None
  /\ slot[last.t] # last.val
  /\ \E u \in Threads : u # last.t /\ slot[u] = last.val
  /\ functions[slot[last.t]] # functions[last.val]

\* ---------------------------------------------------------------------------
\* The locator, under SpecFind.

\* The candidate of a directory, and whether check accepts it.
Best(d) == contains(d, SharedLibraryFiles, fsys)
Valid(d) == Best(d) # <<>> /\ check(Best(d)[1], fsys) = "Ok"

\* The sources of find in their fixed order: the directory of LIBCLANG_PATH,
\* bin and lib under the prefix llvm-config printed, the backup directories.
SearchOrder ==
  (IF libclang_path # Unset THEN <<libclang_path>> ELSE <<>>)
    \o (IF llvm_config.ok /\ llvm_config.lines # <<>>
          THEN <<Join(llvm_config.lines[1], "bin"), Join(llvm_config.lines[1], "lib")>>
          ELSE <<>>)
    \o BackupDirs(fsys)

IsPrefix(a, b) == Len(a) <= Len(b) /\ a = SubSeq(b, 1, Len(a))

\* C16: the directories a run of find searched are an initial part of the
\* fixed order (override directory, helper's bin, helper's lib, backup
\* directories pattern by pattern; no hint path can be passed to find); when
\* find returns a path, it is the candidate of the last directory searched,
\* check accepts it, and the candidate of no directory searched before was
\* accepted; when find returns Err, every directory of the order was
\* searched and none had an accepted candidate.
C16_Order ==
  located.op = "find"
    => LET o == located.found
           k == Len(o.searched)
           order == SearchOrder
       IN /\ IsPrefix(o.searched, order)
          /\ o.res = "Ok"
               => /\ k >= 1
                  /\ Valid(order[k])
                  /\ o.path = Best(order[k])[1]
                  /\ \A j \in 1..(k - 1) : ~Valid(order[j])
          /\ o.res = "Err"
               => /\ o.searched = order
                  /\ \A j \in 1..Len(order) : ~Valid(order[j])

\* find returned a file of a backup directory after the candidate of an
\* earlier source was rejected, llvm-config having reported its prefix.
C16_Witness ==
  /\ located.op = "find"
  /\ located.found.res = "Ok"
  /\ located.found.skipped # <<>>
  /\ llvm_config.lines # <<>>
  /\ Len(located.found.searched) >= 4
  /\ located.found.searched # SearchOrder

\* C17 as stated: with LIBCLANG_PATH set, llvm-config is not run and no other
\* directory than the variable's is searched.
C17_NoFallThrough ==
  (located.op = "find" /\ libclang_path # Unset)
    => /\ ~located.found.ran
       /\ located.found.searched = <<libclang_path>>

\* C17, amended: with LIBCLANG_PATH set, its directory is searched first;
\* when its candidate is accepted, that candidate is returned, llvm-config
\* is not run and no other directory is searched; when it has no candidate
\* or its candidate is rejected, llvm-config is run and, unless the run ends
\* there, the search goes on through the later sources, whose candidate can
\* be returned.
C17_OverrideFirst ==
  (located.op = "find" /\ libclang_path # Unset)
    => LET o == located.found
       IN /\ o.searched # <<>>
          /\ o.searched[1] = libclang_path
          /\ Valid(libclang_path)
               => /\ o.res = "Ok"
                  /\ o.path = Best(libclang_path)[1]
                  /\ ~o.ran
                  /\ o.searched = <<libclang_path>>
          /\ ~Valid(libclang_path)
               => /\ o.ran
                  /\ o.res # "panic" => Len(o.searched) > 1
                  /\ o.res = "panic" <=> (llvm_config.ok /\ llvm_config.lines = <<>>)

\* With LIBCLANG_PATH set to a directory whose candidate is rejected, find
\* returned a file of another directory.
C17_Witness ==
  /\ located.op = "find"
  /\ libclang_path # Unset
  /\ Best(libclang_path) # <<>>
  /\ ~Valid(libclang_path)
  /\ located.found.res = "Ok"
  /\ located.found.ran
  /\ located.found.path # Best(libclang_path)[1]

\* C18: contains returns None exactly when no file of the directory matches
\* a pattern; otherwise it returns a match whose version is not smaller than
\* any other match's, and among the matches of that version the one
\* enumerated last (later pattern, then later in glob's order).
C18_Greatest ==
  located.op = "contains"
    => LET m == Matches(located.arg, SharedLibraryFiles, fsys)
           v(i) == VersionOfName(m[i])
       IN IF m = <<>> THEN located.best = <<>>
          ELSE \E k \in 1..Len(m) :
                 /\ located.best = <<m[k]>>
                 /\ \A j \in 1..Len(m) : ~VecLess(v(k), v(j))
                 /\ \A j \in (k + 1)..Len(m) : VecLess(v(j), v(k))

\* contains chose, among matches of different versions, one that glob
\* enumerated before another.
C18_Witness ==
  /\ located.op = "contains"
  /\ Len(Matches(located.arg, SharedLibraryFiles, fsys)) >= 2
  /\ located.best = <<Matches(located.arg, SharedLibraryFiles, fsys)[1]>>

\* C19: in a directory that holds a file matching the wildcard pattern
\* libclang.so.*, contains returns such a versioned file, whether or not the
\* unversioned libclang.so is there as well.
C19_Versioned ==
  located.op = "contains"
    => LET versioned == {p \in DOMAIN fsys :
                           PathMatches(Join(located.arg, SharedLibraryFiles[2]), p, TRUE)}
       IN versioned # {} => (located.best # <<>> /\ located.best[1] \in versioned)

\* contains on a directory that holds libclang.so and a versioned file.
C19_Witness ==
  /\ located.op = "contains"
  /\ Join(located.arg, SharedLibraryFiles[1]) \in DOMAIN fsys
  /\ located.best # <<>>
  /\ located.best[1] # Join(located.arg, SharedLibraryFiles[1])

\* C20 as stated: parse_version returns the version appended to the file
\* name, whatever the directory part of the path.
C20_NameOnly ==
  located.op = "parse_version" => located.version = VersionOfName(located.arg)

\* C21: Library::check of a dynamic library on an ELF platform (Linux,
\* FreeBSD) returns Ok exactly when the file can be opened, has five bytes at
\* least, starts with 0x7F 'E' 'L' 'F' and its fifth byte is 1 on a 32-bit
\* build and 2 on a 64-bit one, and returns a reason otherwise; for a static
\* archive and on every other platform it returns Ok whatever the file.
C21_Validator ==
  located.op = "check"
    => LET res == located.found.res
           accepted ==
             /\ CheckPath \in DOMAIN fsys
             /\ Len(fsys[CheckPath]) >= 5
             /\ SubSeq(fsys[CheckPath], 1, 4) = <<127, 69, 76, 70>>
             /\ fsys[CheckPath][5] = (IF target.width = 32 THEN 1 ELSE 2)
       IN IF target.os \in {"freebsd", "linux"} /\ located.arg = "Dynamic"
          THEN (res = "Ok" <=> accepted) /\ (~accepted => res \notin {"", "Ok"})
          ELSE res = "Ok"

\* A 32-bit Linux build was handed a 64-bit image and rejected it.
C21_Witness ==
  /\ located.op = "check"
  /\ located.arg = "Dynamic"
  /\ target = [os |-> "linux", width |-> 32]
  /\ CheckPath \in DOMAIN fsys
  /\ fsys[CheckPath] = Elf64
  /\ located.found.res = "invalid ELF class (64-bit)"

\* A candidate of this run of find was rejected for its magic bytes.
Corrupted ==
  \E i \in 1..Len(located.found.skipped) : located.found.skipped[i][2] = "invalid ELF header"

\* The files of directory d that match one of the patterns and that check
\* accepts.
ValidMatches(d) ==
  {p \in DOMAIN fsys :
     /\ \E i \in 1..Len(SharedLibraryFiles) : PathMatches(Join(d, SharedLibraryFiles[i]), p, TRUE)
     /\ check(p, fsys) = "Ok"}

\* C22 as stated: after a candidate was rejected for its magic bytes, find
\* does not end in Err when a searched directory holds a matching file that
\* check accepts.
C22_AnyValid ==
  (located.op = "find" /\ Corrupted)
    => ((\E i \in 1..Len(located.found.searched) : ValidMatches(located.found.searched[i]) # {})
          => located.found.res # "Err")

\* C22, amended: in a run of find that rejected a candidate for its magic
\* bytes, the rejection does not end the search with Err: find returns Err
\* only after it has searched every directory of the order; and whenever the
\* candidate (the highest-ranked match) of a directory it searched is
\* accepted, find returns an accepted candidate.  The other matches of a
\* directory are not candidates.
C22_Continues ==
  (located.op = "find" /\ Corrupted)
    => LET o == located.found
       IN /\ o.res = "Err" => o.searched = SearchOrder
          /\ (\E i \in 1..Len(o.searched) : Valid(o.searched[i]))
               => (o.res = "Ok" /\ check(o.path, fsys) = "Ok")

\* find returned the candidate of a directory after a candidate of an earlier
\* directory was rejected for its magic bytes.
C22_Witness ==
  /\ located.op = "find"
  /\ Corrupted
  /\ located.found.res = "Ok"
  /\ check(located.found.path, fsys) = "Ok"

\* The first place from k on where sub occurs in str, 0 when there is none.
Occurs(sub, str, k) ==
  LET at == {j \in k..(Len(str) - Len(sub) + 1) : SubSeq(str, j, j + Len(sub) - 1) = sub}
  IN IF at = {} THEN 0 ELSE CHOOSE j \in at : \A i \in at : j <= i

\* The text str names the rejections rej[i], rej[i+1], ... with their
\* reasons, one after the other, from place k on.
RECURSIVE ListedFrom(_, _, _, _)
ListedFrom(rej, i, str, k) ==
  IF i > Len(rej) THEN TRUE
  ELSE LET at == Occurs(rej[i][1] \o ": " \o rej[i][2], str, k)
       IN at > 0 /\ ListedFrom(rej, i + 1, str, at + 1)

\* The candidates of the directories dirs[i], dirs[i+1], ... that check
\* rejects, each with its reason.
RECURSIVE RejectedFrom(_, _)
RejectedFrom(dirs, i) ==
  IF i > Len(dirs) THEN <<>>
  ELSE (IF Best(dirs[i]) # <<>> /\ ~Valid(dirs[i])
          THEN <<<<Best(dirs[i])[1], check(Best(dirs[i])[1], fsys)>>>>
          ELSE <<>>)
         \o RejectedFrom(dirs, i + 1)

\* C23: find returns Err only when the candidate of no directory it searched
\* was accepted; the candidates it rejected are recorded one entry per
\* rejection, in the order tried, each with check's reason for it; and the
\* message of Err names LIBCLANG_PATH and lists every one of these entries,
\* in that order.
C23_Failure ==
  located.op = "find"
    => LET o == located.found
       IN /\ o.skipped = RejectedFrom(o.searched, 1)
          /\ o.res = "Err"
               => /\ \A i \in 1..Len(o.searched) : ~Valid(o.searched[i])
                  /\ Occurs("LIBCLANG_PATH", o.message, 1) > 0
                  /\ ListedFrom(o.skipped, 1, o.message, 1)

\* find ended in Err after rejecting two candidates.
C23_Witness ==
  /\ located.op = "find"
  /\ located.found.res = "Err"
  /\ Len(located.found.skipped) >= 2
  /\ located.found.message # ""

\* C24 as stated: when llvm-config cannot be started, exits with a status
\* other than 0, or prints nothing or no directory, find neither halts at
\* that step nor uses its output: the run ends in a path or in Err, and it is
\* the run find makes when llvm-config cannot be started.
C24_HelperUnavailable ==
  (/\ located.op = "find"
   /\ located.found.ran
   /\ \/ ~llvm_config.ok
      \/ ~llvm_config.success
      \/ llvm_config.lines = <<>>
      \/ llvm_config.lines[1] = Garbage)
    => /\ located.found.res \in {"Ok", "Err"}
       /\ located.found.path =
            find(SharedLibraryFiles, [name |-> "LIBCLANG_PATH", value |-> libclang_path],
                 NoHelper, fsys).path

\* The directories a run of find searched that neither LIBCLANG_PATH nor
\* llvm-config named: those of the backup loop.
FromBackup(d) ==
  /\ d # libclang_path
  /\ llvm_config.lines = <<>> \/ d \notin {Join(llvm_config.lines[1], "bin"),
                                            Join(llvm_config.lines[1], "lib")}

\* Directory d matches a backup pattern of Linux under the option.
MatchesBackup(d, case_sensitive) ==
  \E k \in 1..Len(SEARCH_LINUX) : PathMatches(SEARCH_LINUX[k], d, case_sensitive)

\* C26 as stated: on Linux the backup patterns are matched with regard to
\* letter case, so the backup loop searches no directory whose name differs
\* from the patterns in letter case.
C26_CaseSensitive ==
  (located.op = "find" /\ target.os = "linux")
    => \A i \in 1..Len(located.found.searched) :
         FromBackup(located.found.searched[i])
           => MatchesBackup(located.found.searched[i], TRUE)

\* C26, amended: on Linux too the backup patterns are matched without regard
\* to letter case in their wildcard components: every directory the backup
\* loop searches matches a pattern when case is ignored, and a run that ends
\* in Err has searched every directory that does, among them the one that
\* differs from the patterns in letter case only.
C26_CaseInsensitive ==
  (located.op = "find" /\ target.os = "linux")
    => LET o == located.found
       IN /\ \A i \in 1..Len(o.searched) :
               FromBackup(o.searched[i]) => MatchesBackup(o.searched[i], FALSE)
          /\ o.res = "Err"
               => \A d \in Dirs :
                    MatchesBackup(d, FALSE) => \E i \in 1..Len(o.searched) : o.searched[i] = d

\* find returned the library of a directory that matches a backup pattern
\* only when letter case is ignored.
C26_Witness ==
  /\ located.op = "find"
  /\ target.os = "linux"
  /\ located.found.res = "Ok"
  /\ located.found.path = "/usr/Lib/libclang.so"
  /\ ~MatchesBackup("/usr/Lib", TRUE)
  /\ MatchesBackup("/usr/Lib", FALSE)

\* The candidates of the directories dirs[i], dirs[i+1], ..., in order.
RECURSIVE BestsFrom(_, _)
BestsFrom(dirs, i) ==
  IF i > Len(dirs) THEN <<>> ELSE Best(dirs[i]) \o BestsFrom(dirs, i + 1)

\* The files a run of find handed to check, in order: those it rejected,
\* then the one it returned.
Validated ==
  [i \in 1..Len(located.found.skipped) |-> located.found.skipped[i][1]]
    \o (IF located.found.res = "Ok" THEN <<located.found.path>> ELSE <<>>)

\* C30: the files a run of find hands to check are the candidates (the
\* highest-ranked matches) of the directories it searched, one for each
\* directory that has a match and in the order of the search: no other match
\* of a directory is checked or returned, also when the directory's candidate
\* was rejected and another of its matches would have been accepted.
C30_OnePerDirectory ==
  located.op = "find"
    => /\ Validated = BestsFrom(located.found.searched, 1)
       /\ Len(Validated) <= Len(located.found.searched)

\* find rejected the candidate of a directory that holds another match check
\* accepts, searched the directories after it, and ended in Err.
C30_Witness ==
  /\ located.op = "find"
  /\ located.found.res = "Err"
  /\ \E i \in 1..Len(located.found.searched) :
       /\ i < Len(located.found.searched)
       /\ Best(located.found.searched[i]) # <<>>
       /\ ~Valid(located.found.searched[i])
       /\ ValidMatches(located.found.searched[i]) # {}

\* C25: a call of load or load_manually whose located file cannot be opened
\* returns the Err that names that file, and does nothing else: no instance
\* is created, no image opened, no table bound, and no slot, reference count
\* or counter changes.
C25_OpenFailed ==
  [][(/\ last'.op \in {"load", "load_manually"}
      /\ last'.found # NoFile
      /\ ~Openable(last'.found))
       => /\ last'.res = "OpenFailed"
          /\ Occurs(last'.found, last'.msg, 1) > 0
          /\ last'.val = None
          /\ UNCHANGED <<slot, rc, img, closes, file, functions, nextId, owned, held>>]_vars

\* load_manually and load have failed on a file that could not be opened, the
\* latter on a thread with an instance installed.
C25_Witness ==
  /\ last.op = "load"
  /\ last.res = "OpenFailed"
  /\ last.msg = OpenFailedMsg("/opt/llvm/lib/libclang.so")
  /\ slot[last.t] # None

\* C28: a call of load that returns Err, for want of a file or of an image
\* that opens, leaves the caller's slot as it was: empty if it was empty, and
\* otherwise holding the same instance, with the same reference count, the
\* same open image and the same table, so that is_loaded() and the probe of
\* every entry answer on that thread as before the call.
C28_FailedLoad ==
  [][(last'.op = "load" /\ last'.res \in {"DiscoveryFailed", "OpenFailed"})
       => LET t == last'.t
          IN /\ slot'[t] = slot[t]
             /\ (slot'[t] # None) = IsLoaded(t)
             /\ slot[t] # None
                  => /\ rc'[slot[t]] = rc[slot[t]]
                     /\ img'[slot[t]] = img[slot[t]]
                     /\ functions'[slot[t]] = functions[slot[t]]]_vars

\* load has failed to find a file on a thread whose instance is shared with
\* another holder.
C28_Witness ==
  /\ last.op = "load"
  /\ last.res = "DiscoveryFailed"
  /\ slot[last.t] # None
  /\ rc[slot[last.t]] >= 2
  /\ img[slot[last.t]] = "open"

\* C29: the probe of an entry returns a value on every thread, whatever its
\* slot holds: false when the slot of the calling thread is empty, and
\* otherwise true exactly when the image of the instance installed on that
\* thread exports the entry, whichever call installed it and whatever the
\* slots of the other threads hold.
C29_Probe ==
  \A e \in Registry :
    (CfgHolds(e) /\ last.op = ProbeOf(e))
      => /\ last.res \in {"true", "false"}
         /\ last.res = "true"
              <=> (slot[last.t] # None /\ e \in Exports(file[slot[last.t]]))

\* A probe answered false on a thread where set_library had installed an
\* instance without the entry, while another thread holds an instance with it.
C29_Witness ==
  \E e \in Registry, u \in Threads :
    /\ CfgHolds(e)
    /\ last.op = ProbeOf(e)
    /\ last.res = "false"
    /\ latest[last.t].op = "set"
    /\ slot[last.t] # None
    /\ u # last.t
    /\ slot[u] # None
    /\ e \in Exports(file[slot[u]])

\* The files of directory d that match one of Clang::find's patterns and may
\* be executed.
ExecutableMatches(d) ==
  {p \in DOMAIN bins :
     /\ is_executable(p, bins)
     /\ \E k \in 1..Len(ClangPatterns) : PathMatches(Join(d, ClangPatterns[k]), p, TRUE)}

\* The directories of Clang::find in the order of the claim: the path
\* argument, the directory llvm-config --bindir printed, the entries of PATH.
ClangOrder ==
  (IF located.arg # NoHint THEN <<located.arg>> ELSE <<>>)
    \o (IF llvm_config.ok /\ llvm_config.lines # <<>> THEN <<llvm_config.lines[1]>> ELSE <<>>)
    \o (IF path_var = Unset THEN <<>> ELSE Split(path_var, ":"))

\* C27 as stated: with CLANG_PATH set, Clang::find returns Some executable
\* at that very path and searches nothing; with CLANG_PATH unset, the first
\* directory of the order (path argument, llvm-config's bin directory, PATH
\* entries) that holds an executable match gives the result, and None is
\* returned only when there is none.
C27_ClangFind ==
  located.op = "Clang::find"
    => LET o == located.found
           yielding == {i \in 1..Len(ClangOrder) : ExecutableMatches(ClangOrder[i]) # {}}
       IN IF clang_path # Unset
            THEN o.res = "Some" /\ o.path = clang_path /\ o.searched = <<>> /\ ~o.ran
          ELSE IF yielding = {} THEN o.res = "None"
          ELSE /\ o.res = "Some"
               /\ o.path \in ExecutableMatches(ClangOrder[CHOOSE i \in yielding :
                                                            \A j \in yielding : i <= j])

====
